---------------------------- MODULE Spec2Model ----------------------------
(***************************************************************************)
(* Model of the touchscreen door-lock application, "Rasberry pi/gui_app.py" *)
(* (the main loop and the UnlockDoor and LinkTelegram screens), written     *)
(* from the source.                                                         *)
(*                                                                          *)
(* One loop iteration of main() is: the pending MOUSEBUTTONDOWN events      *)
(* (actions MenuClick, UnlockClick, LinkClick, one per event), then the     *)
(* keypad check, the asynchronous step and the draw of the current screen   *)
(* (actions MenuTick, UnlockTick, LinkTick).  The CreateUser screen is not  *)
(* modelled.                                                                *)
(*                                                                          *)
(* The adapters (keypad, camera, face recognition, fingerprint sensor,      *)
(* remote verifier, servo) are the environment: each call's outcome is      *)
(* drawn from the outcomes the call can have (a value or an exception).     *)
(* A handle is open from the constructor call that returned it until the    *)
(* program closes it; open_camera, open_keypad and open_fp count them.      *)
(***************************************************************************)
EXTENDS Integers, Sequences, FiniteSets, TLC

(* ------------------------------ bounds -------------------------------- *)

\* seconds that pass in one loop iteration: 0 or TimeStep
TimeStep == 5
\* a measured duration is followed up to here (more than every timeout)
MaxElapsed == 20
\* at most this many handles of one resource are ever open together
MaxOpen == 2
\* the calls of one kind made for a session are counted up to here
MaxCalls == 2

(* ------------------------- program constants -------------------------- *)

FaceTimeout == 15
FingerprintTimeout == 10
MaxFingerprintAttempts == 3
PinLength == 4
DemoFingerprintId == 1
\* servo/rotate.py: the angles of the locked and the unlocked position
LockedAngle == 90
UnlockedAngle == -90

(* ----------------------------- value sets ----------------------------- *)

\* an attribute that holds None, or that the object does not have yet
NoTime == -1
NoId == -1
NoAttr == -1

Digits == {"1"}
\* keys of the 4x4 matrix that the model presses: digits, a letter, clear, submit
Keys == Digits \cup {"A", "*", "#"}
\* HardwareKeypad.check_pin_input(): a key, None ("none"), or an exception
KeyOutcomes == Keys \cup {"none", "raise"}

Names == {"alice"}
\* FaceRecognition._process_frame(frame): a name, "Unknown", or an exception
FaceOutcomes == Names \cup {"Unknown", "raise"}

FingerIds == {7}
\* finger.get_image(): OK, NOFINGER, or an exception (also of FingerprintSensor())
ImageOutcomes == {"OK", "NOFINGER", "raise"}
\* finger.image_2_tz(1)
TemplateOutcomes == {"OK", "FAIL"}
\* finger.finger_search(): not found (NoId) or finger_id
SearchOutcomes == FingerIds \cup {NoId}

\* if response.status_code == 200
HttpOk == 200
\* a status other than 200
OtherStatus == 500
\* Backend/server.py: the status of a rejected verification
Unauthorized == 401

\* what requests.post gives verify_user_for_unlock: an exception
\* (ConnectionError, Timeout) or a response with a status and a body.  The body
\* is not JSON ("malformed"), JSON that is no object ("list"), or an object
\* whose success member is missing, false, true or a non-empty string, and
\* whose user member is an object or null.
NoResponse(kind) ==
    [kind |-> kind, status |-> 0, body |-> "none", success |-> "missing", user |-> "null"]
Bodies ==
    {[body |-> b, success |-> "missing", user |-> "null"] : b \in {"malformed", "list"}}
    \cup {[body |-> "object", success |-> x, user |-> "object"] :
             x \in {"missing", "false", "true", "string"}}
    \cup {[body |-> "object", success |-> "true", user |-> "null"]}
VerifyOutcomes ==
    {NoResponse("ConnectionError"), NoResponse("Timeout")}
    \cup {[kind |-> "response", status |-> st, body |-> b.body,
           success |-> b.success, user |-> b.user] :
             st \in {HttpOk, OtherStatus}, b \in Bodies}
\* DoorLock().operate_lock(): DoorLock() returns or raises; each servo command
\* (servo.angle = ...) and servo.close() takes effect or raises
LockOutcomes ==
    [ctor : {"ok", "raise"}, unlock : {"ok", "raise"},
     lock : {"ok", "raise"}, close : {"ok", "raise"}]
LockOk == [ctor |-> "ok", unlock |-> "ok", lock |-> "ok", close |-> "ok"]

Deltas == {0, TimeStep}

\* Rasberry pi/main.py, src/main.py: the attempts of the command-line flows
MaxTries == 3
\* hardware_keypad.py: the debounce time of check_pin_input, in milliseconds
DebounceMs == 300
\* the time between two polls of the keypad is a multiple of PollStepMs
PollStepMs == 100
\* the time since the last accepted key is followed up to MaxSinceMs
MaxSinceMs == 400
\* at most MaxPressed keys are held down at once
MaxPressed == 2

VARIABLES
    hw,              \* the hardware modules were imported (else the classes are None)
    running,         \* main() is still in its loop (FALSE after an uncaught exception)
    current_screen,
    menu_buttons,    \* MainMenu.buttons
    unlock,          \* screens["unlock"], an UnlockDoor object
    link,            \* screens["link_telegram"], a LinkTelegram object
    open_camera,     \* Picamera2 handles started and not closed
    open_keypad,     \* HardwareKeypad handles created and not cleaned up
    open_fp,         \* FingerprintSensor handles created and not dropped
    garbage,         \* handles of a discarded screen object that main's screen_obj still references
    trace,           \* history of the current session object (calls made for it)
    events,          \* adapter calls made by the step and the draw of the last loop iteration
    last_result,     \* the result of the last loop iteration's step; the failure
                     \* that ended the last run, while the session stays failed
    keypad,          \* a HardwareKeypad object polled on its own (hardware_keypad.py)
    cli,             \* the command-line flow (Rasberry pi/main.py)
    legacy,          \* the legacy command-line flow (src/main.py)
    server,          \* the backend (Backend/server.py): users table, last request, answer
    telegram,        \* the backend's temp PINs for Telegram linking and the requests on them
    sensor           \* a FingerprintSensor enrolling on its own (fingerprint/main.py)

\* the programs of the repository that run apart from the GUI application
others == <<keypad, cli, legacy, server, telegram, sensor>>

vars == <<hw, running, current_screen, menu_buttons, unlock, link,
          open_camera, open_keypad, open_fp, garbage, trace, events, last_result,
          keypad, cli, legacy, server, telegram, sensor>>

(* ------------------------------ helpers ------------------------------- *)

Min(a, b) == IF a < b THEN a ELSE b

\* dict insertion: a key that is already present keeps its place
Insert(buttons, name) ==
    IF \E i \in 1..Len(buttons) : buttons[i] = name THEN buttons ELSE Append(buttons, name)

\* the first button, in insertion order, whose rectangle holds the point
FirstHit(buttons, point) ==
    LET hits == {i \in 1..Len(buttons) : buttons[i] \in point}
    IN IF hits = {} THEN "none"
       ELSE buttons[CHOOSE i \in hits : \A j \in hits : i <= j]

NoResult == [ret |-> "None", message |-> ""]
Failure(m) == [ret |-> "False", message |-> m]
Success(m) == [ret |-> "True", message |-> m]

\* the history of a session that has made no call yet.  verify_ok: the code
\* submitted last was accepted by verify_user_for_unlock; doorlock_raised:
\* DoorLock() raised; own_window: fingerprint_start_time was set by the
\* fingerprint step of the attempt going on; outcome: "none", "failed",
\* "completed" or "cancelled"
NoTrace == [submitted |-> FALSE, submitted_pin |-> <<>>,
            verify_calls |-> 0, verify_ok |-> FALSE,
            operate_lock_calls |-> 0, doorlock_raised |-> FALSE,
            own_window |-> FALSE, outcome |-> "none"]

\* an adapter call, as recorded in events
Call(name, args) == [call |-> name, args |-> args]

NoGarbage == [keypad |-> FALSE, fp |-> FALSE, camera |-> FALSE]


\* The state an operation works on: the screen object o and the handle counts.
\* main's screen_obj is rebound first, which frees the discarded object it still
\* referenced; the history and the calls start afresh once the earlier session
\* was discarded.
World(o) == [o |-> o, cam |-> open_camera,
             kp |-> open_keypad - (IF garbage.keypad THEN 1 ELSE 0),
             fp |-> open_fp - (IF garbage.fp THEN 1 ELSE 0),
             trace |-> IF trace.outcome \in {"completed", "cancelled"} THEN NoTrace
                       ELSE trace,
             events |-> IF trace.outcome \in {"completed", "cancelled"} THEN {}
                        ELSE events]

\* the same at the start of a loop iteration: no call made yet
TickWorld(o) == [World(o) EXCEPT !.events = {}]

Ret(w, result) == [w |-> w, result |-> result]

(* ------------------------- class UnlockDoor --------------------------- *)

\* UnlockDoor.__init__; the attributes set later by verify_and_unlock and by
\* the step handlers do not exist yet ("absent", NoAttr, NoTime)
UnlockDoor ==
    [pin |-> <<>>, step |-> "pin", fingerprint_id |-> NoId, face_name |-> "None",
     buttons |-> <<>>, hardware_keypad |-> FALSE, pin_input_active |-> FALSE,
     camera |-> FALSE,
     unlock_state |-> "absent", unlock_step |-> "absent",
     fingerprint_attempts |-> NoAttr, face_recognition_obj |-> FALSE,
     face_elapsed |-> NoTime, fingerprint_elapsed |-> NoTime,
     fp_sensor |-> FALSE, user_data |-> "absent"]

\* a submit check that accepts any non-empty code
PinComplete_nonempty(pin) == Len(pin) >= 1

\* if len(self.pin) == 4
PinComplete(pin) == Len(pin) = PinLength

\* key.isdigit() and len(self.pin) < 4
AcceptsDigit(pin, key) == key \in Digits /\ Len(pin) < PinLength

\* if time.time() - self.face_start_time > 15
FaceTimedOut(o) == o.face_elapsed > FaceTimeout

\* an attempt window that is over as soon as 10 s have passed
FingerprintTimedOut_early(elapsed) == elapsed >= FingerprintTimeout

\* if time.time() - self.fingerprint_start_time > 10
FingerprintTimedOut(elapsed) == elapsed > FingerprintTimeout

\* an attempt budget that is off by one
AttemptsExhausted_late(attempts) == attempts > MaxFingerprintAttempts

\* if self.fingerprint_attempts >= 3
AttemptsExhausted(attempts) == attempts >= MaxFingerprintAttempts

\* cleanup_keypad: HardwareKeypad.cleanup() catches its own errors, so the
\* handle is always dropped
cleanup_keypad(w) ==
    IF w.o.hardware_keypad
    THEN [w EXCEPT !.o.hardware_keypad = FALSE, !.kp = w.kp - 1]
    ELSE w

\* try: self.camera.stop(); self.camera.close(); self.camera = None
\* except: the handle stays (close_ok = FALSE: stop() or close() raised)
close_camera(w, close_ok) ==
    IF w.o.camera /\ close_ok
    THEN [w EXCEPT !.o.camera = FALSE, !.cam = w.cam - 1]
    ELSE w

\* cleanup_camera
cleanup_camera(w, close_ok) ==
    close_camera([w EXCEPT !.o.face_recognition_obj = FALSE], close_ok)

\* self.fp_sensor = None: the last reference to the sensor object goes
drop_fp_sensor(w) ==
    IF w.o.fp_sensor
    THEN [w EXCEPT !.o.fp_sensor = FALSE, !.fp = w.fp - 1]
    ELSE w

\* a start_pin_input that does not test whether HardwareKeypad was imported
start_pin_input_unguarded(w, ok) ==
    IF ok
    THEN [w EXCEPT !.o.hardware_keypad = TRUE, !.o.pin_input_active = TRUE,
                   !.kp = IF w.o.hardware_keypad THEN w.kp ELSE w.kp + 1]
    ELSE w

\* start_pin_input; ok: HardwareKeypad() returned, else it raised.  A handle
\* already held is replaced: its __del__ cleans it up.
start_pin_input(w, ok) ==
    IF hw /\ ok
    THEN [w EXCEPT !.o.hardware_keypad = TRUE, !.o.pin_input_active = TRUE,
                   !.kp = IF w.o.hardware_keypad THEN w.kp ELSE w.kp + 1]
    ELSE w

\* cancel_pin_input
cancel_pin_input(w) ==
    cleanup_keypad([w EXCEPT !.o.pin_input_active = FALSE, !.o.pin = <<>>])

\* check_pin_input; key is what HardwareKeypad.check_pin_input() does
check_pin_input(w, key) ==
    IF ~w.o.pin_input_active \/ ~w.o.hardware_keypad
    THEN Ret(w, "None")
    ELSE LET r == w
         IN CASE key = "raise" ->
                   Ret(cleanup_keypad([r EXCEPT !.o.pin_input_active = FALSE]), "None")
              [] key = "none" -> Ret(r, "None")
              [] key = "#" ->
                   IF PinComplete(r.o.pin)
                   THEN Ret(cleanup_keypad([r EXCEPT !.o.pin_input_active = FALSE]),
                            "verify_pin")
                   ELSE Ret(r, "None")
              [] key = "*" -> Ret([r EXCEPT !.o.pin = <<>>], "None")
              [] OTHER ->
                   IF AcceptsDigit(r.o.pin, key)
                   THEN Ret([r EXCEPT !.o.pin = Append(r.o.pin, key)], "None")
                   ELSE Ret(r, "None")

\* verify_and_unlock, and main's unlock_state = "processing" after it.  A code
\* submitted after the earlier attempt has failed starts the next session.
verify_and_unlock(w) ==
    [w EXCEPT !.o.unlock_state = "processing", !.o.unlock_step = "face",
              !.o.step = "face", !.o.face_name = "None", !.o.fingerprint_id = NoId,
              !.o.fingerprint_attempts = 0, !.o.face_recognition_obj = FALSE,
              !.o.face_elapsed = 0,
              !.trace = [(IF w.trace.outcome = "failed" THEN NoTrace ELSE w.trace)
                         EXCEPT !.submitted = TRUE, !.submitted_pin = w.o.pin,
                                !.verify_ok = FALSE, !.own_window = FALSE]]

Fail(w, message) == Ret([w EXCEPT !.o.unlock_state = "failed"], Failure(message))

\* the camera set-up of process_face_step; cam: "ok", "raise" (Picamera2()
\* raised) or "start_raise" (configure() or start() raised on the new handle,
\* which self.camera = None then drops without closing it)
open_camera_for_preview(w, cam) ==
    IF w.o.camera \/ w.cam >= MaxOpen THEN w
    ELSE CASE cam = "ok" -> [w EXCEPT !.o.camera = TRUE, !.cam = w.cam + 1]
           [] cam = "start_raise" -> [w EXCEPT !.cam = w.cam + 1]
           [] OTHER -> w

\* what happens after a frame was classified as a known identity
face_recognized(w, name, close_ok) ==
    LET r == close_camera([w EXCEPT !.o.face_name = name,
                                    !.o.face_recognition_obj = FALSE], close_ok)
    IN [r EXCEPT !.o.unlock_step = "fingerprint", !.o.step = "fingerprint",
                 !.o.fingerprint_attempts = 0]

\* UnlockDoor.process_face_step
process_face_step(w, cam, face, close_ok) ==
    LET w1 == [w EXCEPT !.o.step = "face"]
    IN IF FaceTimedOut(w1.o) THEN Fail(w1, "Face recognition timeout")
       ELSE LET w2 == open_camera_for_preview(w1, cam)
            IN IF ~w2.o.camera THEN Fail(w2, "Camera error")
               ELSE IF hw
               THEN LET w3 == [w2 EXCEPT !.o.face_recognition_obj = TRUE,
                                         !.events = w2.events \cup {Call("camera_frame", <<>>)}]
                    IN CASE face = "raise" -> Fail(w3, "Face error")
                         [] face = "Unknown" -> Ret(w3, NoResult)
                         [] OTHER -> Ret(face_recognized(w3, face, close_ok), NoResult)
               ELSE Ret([w2 EXCEPT !.o.face_name = "test_user",
                                   !.o.unlock_step = "fingerprint",
                                   !.o.fingerprint_attempts = 0], NoResult)

\* a failed attempt that is counted without beginning a new window
fingerprint_attempt_failed_same_window(w, message, keep_start) ==
    LET n == w.o.fingerprint_attempts + 1
        r == [w EXCEPT !.o.fingerprint_attempts = n]
    IN IF AttemptsExhausted(n)
       THEN Fail([r EXCEPT !.o.fingerprint_elapsed =
                              IF keep_start THEN @ ELSE NoTime,
                           !.trace.own_window = FALSE], message)
       ELSE Ret(r, NoResult)

\* one more failed fingerprint attempt (timeout, mismatch or exception);
\* keep_start: the timeout branch does not delete fingerprint_start_time
fingerprint_attempt_failed(w, message, keep_start) ==
    LET n == w.o.fingerprint_attempts + 1
        r == [w EXCEPT !.o.fingerprint_attempts = n]
    IN IF AttemptsExhausted(n)
       THEN Fail([r EXCEPT !.o.fingerprint_elapsed =
                              IF keep_start THEN @ ELSE NoTime,
                           !.trace.own_window = FALSE], message)
       ELSE Ret([r EXCEPT !.o.fingerprint_elapsed = 0,
                          !.trace.own_window = TRUE], NoResult)

\* the sensor part of process_fingerprint_step; next_step is "verify"
\* (UnlockDoor) or "complete" (LinkTelegram)
poll_fingerprint(w, img, tz, search, next_step) ==
    IF ~hw
    THEN Ret([w EXCEPT !.o.fingerprint_id = DemoFingerprintId,
                       !.o.unlock_step = next_step,
                       !.o.fingerprint_elapsed = NoTime,
                       !.trace.own_window = FALSE], NoResult)
    ELSE IF img = "raise"
    THEN fingerprint_attempt_failed(drop_fp_sensor(w), "Fingerprint error", FALSE)
    ELSE LET w1 == [w EXCEPT !.o.fp_sensor = TRUE,
                             !.fp = IF w.o.fp_sensor THEN w.fp ELSE w.fp + 1,
                             !.events = w.events \cup {Call("fp_poll", <<>>)}]
         IN IF img = "OK" /\ tz = "OK"
            THEN IF search # NoId
                 THEN Ret([drop_fp_sensor(w1) EXCEPT !.o.fingerprint_id = search,
                                                     !.o.fingerprint_elapsed = NoTime,
                                                     !.trace.own_window = FALSE,
                                                     !.o.unlock_step = next_step],
                          NoResult)
                 ELSE fingerprint_attempt_failed(drop_fp_sensor(w1),
                          "Fingerprint not recognized after 3 attempts", FALSE)
            ELSE Ret(w1, NoResult)

\* UnlockDoor.process_fingerprint_step / LinkTelegram.process_fingerprint_step;
\* an expired window is recorded with whether it began in this attempt and
\* with the number of the attempt it ends
process_fingerprint_step(w, close_ok, img, tz, search, next_step) ==
    LET w1 == close_camera([w EXCEPT !.o.step = "fingerprint"], close_ok)
        elapsed == IF w1.o.fingerprint_elapsed = NoTime THEN 0
                   ELSE w1.o.fingerprint_elapsed
        w2 == [w1 EXCEPT !.o.fingerprint_elapsed = elapsed,
                         !.trace.own_window =
                             IF w1.o.fingerprint_elapsed = NoTime THEN TRUE ELSE @]
        w3 == [w2 EXCEPT !.events = w2.events \cup
                   {Call("fp_timeout", <<w2.trace.own_window,
                                         w2.o.fingerprint_attempts + 1>>)}]
    IN IF FingerprintTimedOut(elapsed)
       THEN fingerprint_attempt_failed(w3,
                "Fingerprint not detected after 3 attempts", TRUE)
       ELSE poll_fingerprint(w2, img, tz, search, next_step)

\* verify_user_for_unlock, given what requests.post does: the pair it returns.
\* response.json() raises on a body that is not JSON and result.get raises on
\* one that is no object; the except clause returns (False, None).
verify_user_for_unlock(resp) ==
    IF resp.kind = "response" /\ resp.status = HttpOk /\ resp.body = "object"
    THEN [success |-> IF resp.success = "missing" THEN "false" ELSE resp.success,
          user |-> resp.user]
    ELSE [success |-> "false", user |-> "null"]

\* bool(success), as "if not success" and "if success" take it
Truthy(success) == success \in {"true", "string"}

\* the call verify_user_for_unlock(self.pin, self.fingerprint_id, self.face_name)
call_verify(w, v) ==
    [w EXCEPT !.events = w.events \cup
                  {Call("verify", <<w.o.pin, w.o.fingerprint_id, w.o.face_name>>),
                   Call("verify_response",
                        <<v.kind, v.status, v.body, v.success, v.user>>)},
              !.trace.verify_calls = Min(w.trace.verify_calls + 1, MaxCalls)]

\* a verify step that goes on to the unlock step whatever the verifier said
process_verify_step_unchecked(w, v) ==
    LET w1 == call_verify([w EXCEPT !.o.step = "fingerprint"], v)
    IN Ret([w1 EXCEPT !.trace.verify_ok = Truthy(verify_user_for_unlock(v).success),
                      !.o.user_data = "user",
                      !.o.unlock_step = "unlock"], NoResult)

\* a verify step that fails on a rejection without calling log_access
process_verify_step_unlogged(w, v) ==
    LET w1 == call_verify([w EXCEPT !.o.step = "fingerprint"], v)
        r == verify_user_for_unlock(v)
    IN IF ~Truthy(r.success)
       THEN Fail(w1, "Authentication failed")
       ELSE Ret([w1 EXCEPT !.trace.verify_ok = TRUE,
                           !.o.user_data = IF r.user = "object" THEN "user" ELSE "None",
                           !.o.unlock_step = "unlock"], NoResult)

\* UnlockDoor.process_verify_step
process_verify_step(w, v) ==
    LET w1 == call_verify([w EXCEPT !.o.step = "fingerprint"], v)
        r == verify_user_for_unlock(v)
    IN IF ~Truthy(r.success)
       THEN Fail([w1 EXCEPT !.events = @ \cup {Call("log_access", <<"failed_combined">>)}],
                 "Authentication failed")
       ELSE Ret([w1 EXCEPT !.trace.verify_ok = TRUE,
                           !.o.user_data = IF r.user = "object" THEN "user" ELSE "None",
                           !.o.unlock_step = "unlock"], NoResult)

\* DoorLock.__init__: the servo is created at the locked angle
DoorLock == [angle |-> LockedAngle, commanded |-> <<>>]

\* self.servo.angle = a: the servo is commanded to a, or the assignment raises
\* and the servo keeps its position
set_angle(servo, a, out) ==
    IF out = "ok"
    THEN [angle |-> a, commanded |-> Append(servo.commanded, a)]
    ELSE servo

\* DoorLock.unlock: the exception of the command is caught, False is returned
DoorLock_unlock(servo, out) ==
    [servo |-> set_angle(servo, UnlockedAngle, out), ret |-> out = "ok"]

\* DoorLock.lock: the exception of the command is caught, False is returned
DoorLock_lock(servo, out) ==
    [servo |-> set_angle(servo, LockedAngle, out), ret |-> out = "ok"]

\* DoorLock.operate_lock: unlock() and lock() never raise, so the except branch
\* (servo.angle = 90, return False) is not taken; servo.close() in the finally
\* block may raise
operate_lock(servo, lock) ==
    LET u == DoorLock_unlock(servo, lock.unlock)
        l == DoorLock_lock(u.servo, lock.lock)
    IN [servo |-> l.servo, unlocked |-> u.ret, locked |-> l.ret,
        ret |-> IF lock.close = "ok" THEN "True" ELSE "raise"]

\* DoorLock().operate_lock() inside try/except; lock.ctor = "raise": DoorLock()
\* raised and operate_lock was not called
call_operate_lock(w, lock) ==
    CASE ~hw -> w
      [] lock.ctor = "raise" -> [w EXCEPT !.trace.doorlock_raised = TRUE]
      [] OTHER -> [w EXCEPT !.events = w.events \cup
                                {LET r == operate_lock(DoorLock, lock)
                                 IN Call("operate_lock",
                                         <<r.servo.commanded, r.servo.angle,
                                           r.unlocked, r.locked>>)},
                            !.trace.operate_lock_calls =
                                Min(w.trace.operate_lock_calls + 1, MaxCalls)]

\* an unlock step that runs the lock cycle and stays in the unlock step
process_unlock_step_final_pending(w, lock) ==
    Ret(call_operate_lock([w EXCEPT !.o.step = "unlock"], lock), NoResult)

\* UnlockDoor.process_unlock_step_final; result "raise": self.user_data is None
\* and self.user_data.get(...) raises AttributeError out of the handler
process_unlock_step_final(w, lock) ==
    LET w1 == call_operate_lock([w EXCEPT !.o.step = "unlock"], lock)
    IN IF w1.o.user_data = "None"
       THEN Ret(w1, [ret |-> "raise", message |-> "AttributeError"])
       ELSE Ret([w1 EXCEPT !.o.unlock_state = "completed",
                           !.events = @ \cup {Call("log_access", <<"success">>)}],
                Success("Welcome"))

\* UnlockDoor.draw: the buttons it (re)creates, and the preview frame
UnlockDoor_draw(w) ==
    LET o == w.o
        b1 == IF o.step = "pin"
              THEN Insert(o.buttons, IF o.pin_input_active THEN "cancel_pin"
                                     ELSE "start_pin")
              ELSE o.buttons
    IN [w EXCEPT !.o.buttons = Insert(b1, "back"),
                 !.events = IF o.step = "face" /\ o.camera
                            THEN w.events \cup {Call("camera_frame", <<>>)} ELSE w.events]

\* UnlockDoor.handle_click: the action it returns for a click on a point
UnlockDoor_handle_click(o, point) ==
    LET b == FirstHit(o.buttons, point)
    IN CASE b = "back" -> "back"
         [] b = "start_pin" -> "start_pin_input"
         [] b = "cancel_pin" -> "cancel_pin_input"
         [] OTHER -> "None"


(* ------------------------ class LinkTelegram -------------------------- *)

\* LinkTelegram.__init__
LinkTelegram ==
    [pin |-> <<>>, step |-> "instructions", fingerprint_id |-> NoId,
     face_name |-> "None", telegram_pin |-> <<>>,
     buttons |-> <<>>, hardware_keypad |-> FALSE, pin_input_active |-> FALSE,
     camera |-> FALSE,
     unlock_state |-> "None", unlock_step |-> "None",
     fingerprint_attempts |-> 0, face_recognition_obj |-> FALSE,
     face_elapsed |-> NoTime, fingerprint_elapsed |-> NoTime,
     fp_sensor |-> FALSE, user_data |-> "absent"]

\* LinkTelegram.verify_pin: len(self.pin) == 4 and self.pin.isdigit()
LinkTelegram_verify_pin(w) ==
    IF PinComplete(w.o.pin) /\ \A i \in 1..Len(w.o.pin) : w.o.pin[i] \in Digits
    THEN Ret(w, "True")
    ELSE Ret([w EXCEPT !.o.pin = <<>>], "False")

\* LinkTelegram.start_authentication, and main's unlock_state = "processing"
start_authentication(w) == verify_and_unlock(w)

\* LinkTelegram.process_face_step
LinkTelegram_process_face_step(w, cam, face, close_ok) ==
    LET w1 == [w EXCEPT !.o.step = "face"]
    IN IF FaceTimedOut(w1.o) THEN Fail(w1, "Face recognition timeout")
       ELSE LET w2 == open_camera_for_preview(w1, cam)
            IN IF ~w2.o.camera THEN Fail(w2, "Camera error")
               ELSE IF hw
               THEN LET w3 == [w2 EXCEPT !.o.face_recognition_obj = TRUE,
                                         !.events = w2.events \cup {Call("camera_frame", <<>>)}]
                    IN CASE face = "raise" -> Fail(w3, "Face error")
                         [] face = "Unknown" -> Ret(w3, NoResult)
                         [] OTHER -> Ret(face_recognized(w3, face, close_ok), NoResult)
               ELSE Ret([w2 EXCEPT !.o.face_name = "test_user",
                                   !.o.unlock_step = "fingerprint",
                                   !.o.step = "fingerprint",
                                   !.o.fingerprint_attempts = 0], NoResult)

\* process_auth_step, the branch unlock_step == "complete"
LinkTelegram_process_complete(w, v) ==
    LET w1 == call_verify(w, v)
        r == verify_user_for_unlock(v)
    IN IF ~Truthy(r.success)
       THEN Fail(w1, "Authentication failed - invalid credentials")
       ELSE Ret([w1 EXCEPT !.trace.verify_ok = TRUE,
                           !.o.user_data = IF r.user = "object" THEN "user" ELSE "None",
                           !.o.step = "enter_telegram_pin",
                           !.o.unlock_state = "None"], NoResult)

\* LinkTelegram.draw; "num" stands for the buttons num_0 .. num_9 of draw_numpad
LinkTelegram_draw(w) ==
    LET o == w.o
        b1 == CASE o.step = "instructions" -> Insert(o.buttons, "continue")
                [] o.step = "pin" ->
                     Insert(o.buttons, IF o.pin_input_active THEN "cancel_pin"
                                       ELSE "start_pin")
                [] o.step = "enter_telegram_pin" ->
                     Insert(Insert(Insert(o.buttons, "num"), "clear"), "verify")
                [] o.step = "complete" -> Insert(o.buttons, "done")
                [] OTHER -> o.buttons
    IN [w EXCEPT !.o.buttons = Insert(b1, "back"),
                 !.events = IF o.step = "face" /\ o.camera
                            THEN w.events \cup {Call("camera_frame", <<>>)} ELSE w.events]

\* LinkTelegram.handle_click: the action it returns for a click on a point.
\* The loop over self.buttons goes on to the next rectangle that holds the
\* point when 'verify' is hit with fewer than four digits entered.
LinkTelegram_handle_click(o, point) ==
    LET hit == IF Len(o.telegram_pin) = PinLength THEN point ELSE point \ {"verify"}
        b == FirstHit(o.buttons, hit)
    IN CASE b \in {"back", "done"} -> "back"
         [] b = "continue" -> "start_auth"
         [] b = "start_pin" -> "start_pin_input"
         [] b = "cancel_pin" -> "cancel_pin_input"
         [] b = "verify" -> "verify_telegram_pin"
         [] OTHER -> "None"

\* LinkTelegram.handle_click: self.telegram_pin after a click on a point
\* (num_* adds its digit while fewer than four are entered, clear empties it)
LinkTelegram_click_pin(o, point) ==
    LET b == FirstHit(o.buttons, point)
    IN CASE b = "num" ->
              IF Len(o.telegram_pin) < PinLength
              THEN Append(o.telegram_pin, CHOOSE d \in Digits : TRUE)
              ELSE o.telegram_pin
         [] b = "clear" -> <<>>
         [] OTHER -> o.telegram_pin

\* the call link_telegram_with_auth(self.telegram_pin, user_id), with the
\* session it is made in: whether the code submitted last was accepted by
\* verify_user_for_unlock, the step shown and the state of the authentication
call_link_telegram(w) ==
    [w EXCEPT !.events = w.events \cup
                  {Call("link_telegram",
                        <<w.o.telegram_pin, w.o.user_data, w.trace.verify_ok,
                          w.trace.submitted, w.o.step, w.o.unlock_state>>)}]

\* LinkTelegram.link_telegram; ok: the backend answered 200.  user_data is
\* None after a verification that returned no user object: .get raises.
link_telegram(w, ok) ==
    CASE w.o.user_data = "absent" -> Ret(w, "False")
      [] w.o.user_data = "None" -> Ret(w, "raise")
      [] OTHER ->
           IF ok THEN Ret([call_link_telegram(w) EXCEPT !.o.step = "complete"], "True")
           ELSE Ret([call_link_telegram(w) EXCEPT !.o.telegram_pin = <<>>], "False")


(* ------------------------------ main() -------------------------------- *)

\* MainMenu.draw
MainMenu_draw == <<"unlock", "create_user", "link_telegram">>

\* whether a call succeeds: either way where the handler makes the call
Outcome(called) == IF called THEN BOOLEAN ELSE {TRUE}

\* points of the screen, each given by the buttons whose rectangles hold it
MenuPoints == {{"unlock"}, {"link_telegram"}}
UnlockPoints == {{"start_pin"}, {"cancel_pin"}, {"back"}}
\* on the link screen the rectangle of 'done' lies inside those of 'start_pin'
\* and 'cancel_pin', and the numpad has points outside every other rectangle
LinkPoints == {{"continue"}, {"start_pin", "done"}, {"cancel_pin", "done"}, {"back"}}
\* every place of the link screen: those of LinkPoints and the numpad's keys
LinkScreenPoints ==
    {{"continue"}, {"start_pin", "done"}, {"cancel_pin", "done"}, {"back"},
     {"num"}, {"clear"}, {"verify"}}

\* the key a poll of the keypad can give; no poll is made without a handle
KeyChoices(o) == IF o.pin_input_active /\ o.hardware_keypad THEN KeyOutcomes ELSE {"none"}

CameraOutcomes == {"ok", "raise", "start_raise"}

(* ------------- hardware_keypad.py: HardwareKeypad, polled ------------- *)

\* HardwareKeypad.keys: the layout of the matrix, in the order of the scan
keys == <<"1", "2", "3", "A", "4", "5", "6", "B",
          "7", "8", "9", "C", "*", "0", "#", "D">>
\* the keys that are held down in the model
PollKeys == {"1", "2", "#"}
PressedSets == {down \in SUBSET PollKeys : Cardinality(down) <= MaxPressed}

\* HardwareKeypad.read_keypad: the keys held down, in the order of the scan
read_keypad(down) == SelectSeq(keys, LAMBDA k : k \in down)

\* a HardwareKeypad nobody has polled: check_pin_input creates last_key_pressed
\* = [] and last_key_time = 0 at its first call, and time() is far beyond 0.3;
\* since: time() - last_key_time; observed, observed_since: what the poll
\* before the last one read, and the value of since at the last poll
HardwareKeypad ==
    [last_key_pressed |-> <<>>, since |-> MaxSinceMs, polled |-> FALSE,
     pressed_keys |-> <<>>, observed |-> <<>>, observed_since |-> MaxSinceMs,
     key |-> "None"]

\* HardwareKeypad.check_pin_input with read_keypad() = pressed_keys
check_pin_input_debounced(k, pressed_keys) ==
    LET seen == [k EXCEPT !.polled = TRUE, !.pressed_keys = pressed_keys,
                          !.observed = k.pressed_keys, !.observed_since = k.since]
    IN IF pressed_keys # <<>>
          /\ (pressed_keys # k.last_key_pressed \/ k.since > DebounceMs)
       THEN [seen EXCEPT !.key = pressed_keys[1],
                         !.last_key_pressed = pressed_keys, !.since = 0]
       ELSE IF pressed_keys = <<>>
       THEN [seen EXCEPT !.key = "None", !.last_key_pressed = <<>>]
       ELSE [seen EXCEPT !.key = "None"]

(* ------------- Rasberry pi/main.py: the command-line flow ------------- *)

\* PasswordInput().get_password() and FingerprintSensor().find_fingerprint():
\* True, False, or an exception
CheckOutcomes == {"True", "False", "raise"}

\* the module after its imports: tries = 0, authorized = False; pc: the place
\* in the script; password_check, name, fingerprint_check: the values the
\* current attempt has assigned ("none": not assigned in this attempt);
\* history: the factor at which each earlier attempt stopped
CliStart ==
    [pc |-> "loop", tries |-> 0, authorized |-> FALSE, password_check |-> "none",
     name |-> "none", fingerprint_check |-> "none", history |-> <<>>,
     operate_lock_calls |-> 0, exit_code |-> NoAttr, message |-> "none"]

\* continue: back to the test of the while loop
cli_continue(c, factor) ==
    [c EXCEPT !.authorized = FALSE, !.pc = "loop", !.history = Append(@, factor)]

\* an exception nobody catches: traceback, exit code 1
cli_uncaught(c) == [c EXCEPT !.pc = "exited", !.exit_code = 1, !.message = "traceback"]

\* while not authorized: ... tries += 1
cli_loop(c) ==
    IF c.authorized \/ c.tries = MaxTries
    THEN [c EXCEPT !.pc = "final"]
    ELSE [c EXCEPT !.tries = @ + 1, !.pc = "password", !.password_check = "none",
                   !.name = "none", !.fingerprint_check = "none"]

\* the password step
cli_password(c, out) ==
    LET c1 == [c EXCEPT !.password_check = out]
    IN CASE out = "raise" -> cli_uncaught(c1)
         [] out = "True" -> [c1 EXCEPT !.authorized = TRUE, !.pc = "face"]
         [] OTHER -> cli_continue(c1, "password")

\* the face step: find_face() gives a name, "Unknown", or raises (break)
cli_face(c, face) ==
    LET c1 == [c EXCEPT !.name = face]
    IN CASE face = "raise" -> [c1 EXCEPT !.pc = "final"]
         [] face = "Unknown" -> cli_continue(c1, "face")
         [] OTHER -> [c1 EXCEPT !.authorized = TRUE, !.pc = "fingerprint"]

\* the fingerprint step
cli_fingerprint(c, out) ==
    LET c1 == [c EXCEPT !.fingerprint_check = out]
    IN CASE out = "raise" -> cli_uncaught(c1)
         [] out = "True" -> [c1 EXCEPT !.authorized = TRUE, !.pc = "loop"]
         [] OTHER -> cli_continue(c1, "fingerprint")

\* the final check: sys.exit(1), or DoorLock().operate_lock() and sys.exit(0)
cli_final(c, lock) ==
    IF ~c.authorized
    THEN [c EXCEPT !.pc = "exited", !.exit_code = 1, !.message = "denied"]
    ELSE IF lock.ctor = "raise"
    THEN cli_uncaught([c EXCEPT !.message = "granted"])
    ELSE LET c1 == [c EXCEPT !.operate_lock_calls = @ + 1]
         IN IF operate_lock(DoorLock, lock).ret = "raise"
            THEN cli_uncaught(c1)
            ELSE [c1 EXCEPT !.pc = "exited", !.exit_code = 0, !.message = "granted"]

(* ----------------- src/main.py: the legacy command-line flow ----------- *)

\* the module after its imports; face_ok, fingerprint_ok in history: what each
\* earlier attempt found
LegacyStart ==
    [pc |-> "loop", tries |-> 0, authorized |-> FALSE, name |-> "none",
     fingerprint_check |-> "none", history |-> <<>>, exit_code |-> NoAttr,
     message |-> "none"]

\* while not authorized: tries += 1
legacy_loop(c) ==
    IF c.authorized
    THEN [c EXCEPT !.pc = "final"]
    ELSE [c EXCEPT !.tries = @ + 1, !.pc = "face", !.name = "none",
                   !.fingerprint_check = "none"]

\* the face step: no continue after "Unknown"; an exception breaks the loop
legacy_face(c, face) ==
    LET c1 == [c EXCEPT !.name = face]
    IN CASE face = "raise" -> [c1 EXCEPT !.pc = "final"]
         [] face = "Unknown" -> [c1 EXCEPT !.authorized = FALSE, !.pc = "fingerprint"]
         [] OTHER -> [c1 EXCEPT !.authorized = TRUE, !.pc = "fingerprint"]

\* the fingerprint step and the test of tries at the end of the loop body
legacy_fingerprint(c, out) ==
    LET c1 == [c EXCEPT !.fingerprint_check = out,
                        !.history = Append(@, <<c.name, out>>)]
    IN CASE out = "raise" ->
              [c1 EXCEPT !.pc = "exited", !.exit_code = 1, !.message = "traceback"]
         [] out = "True" -> [c1 EXCEPT !.authorized = TRUE, !.pc = "loop"]
         [] OTHER -> [c1 EXCEPT !.authorized = FALSE,
                                !.pc = IF c.tries = MaxTries THEN "final" ELSE "loop"]

\* the final check: sys.exit(1) or sys.exit(0)
legacy_final(c) ==
    IF ~c.authorized
    THEN [c EXCEPT !.pc = "exited", !.exit_code = 1, !.message = "denied"]
    ELSE [c EXCEPT !.pc = "exited", !.exit_code = 0, !.message = "granted"]

(* ------------------ Backend/server.py: /api/verify-user ---------------- *)

\* the users of the table, the codes and the fingerprint ids they can have
UserNames == {"alice", "bob"}
PinCodes == {"1111", "2222"}
FingerprintIds == {1, 2}
user_id(name) == IF name = "alice" THEN 1 ELSE 2

\* the users table: a row per user; fingerprint ids are not shared
UserTables ==
    {{[user_id |-> user_id(n), name |-> n, pin_code |-> pin[n],
       fingerprint_id |-> fid[n], is_active |-> act[n]] : n \in UserNames} :
        pin \in [UserNames -> PinCodes],
        fid \in {f \in [UserNames -> FingerprintIds] : f["alice"] # f["bob"]},
        act \in [UserNames -> BOOLEAN]}
NoUsers == {}

\* a field of a JSON body: missing, null, or a value
Absent(kind, filler) == [kind |-> kind, value |-> filler]
Value(v) == [kind |-> "value", value |-> v]
PinFields ==
    {Absent("missing", ""), Absent("null", "")} \cup {Value(p) : p \in PinCodes \cup {""}}
FingerprintFields ==
    {Absent("missing", NoId), Absent("null", NoId)} \cup {Value(f) : f \in FingerprintIds}
FaceFields ==
    {Absent("missing", ""), Absent("null", "")} \cup {Value(n) : n \in UserNames}

\* request.get_json(): an object with the three fields, or nothing ("none")
NoBody ==
    [json |-> "none", pin_code |-> Absent("missing", ""),
     fingerprint_id |-> Absent("missing", NoId), face_match |-> Absent("missing", "")]
RequestBodies ==
    [json : {"object"}, pin_code : PinFields, fingerprint_id : FingerprintFields,
     face_match : FaceFields]
    \cup {NoBody}

\* data.get(field) is None
IsNone(field) == field.kind # "value"
\* "if pin_code:" takes the branch
TruthyField(field) == field.kind = "value" /\ field.value # ""

\* the rows the query of verify_user selects: is_active, and the filters that
\* were added for pin_code and fingerprint_id; face_match is not used
query(users, body) ==
    {u \in users :
        /\ u.is_active
        /\ TruthyField(body.pin_code) => u.pin_code = body.pin_code.value
        /\ ~IsNone(body.fingerprint_id) => u.fingerprint_id = body.fingerprint_id.value}

\* the answer of the endpoint, as the caller's requests.post gives it
Answer(status, success, row) ==
    [kind |-> "response", status |-> status, body |-> "object", success |-> success,
     user |-> IF row = {} THEN "null" ELSE "object", row |-> row]

\* verify_user: the answers it can give for a body; data.get raises when
\* get_json() gave no object, query.execute() may raise (db = "raise"), and
\* response.data[0] is any of the selected rows (no order is asked for)
verify_user(users, body, db) ==
    IF body.json = "none" \/ db = "raise"
    THEN {Answer(OtherStatus, "false", {})}
    ELSE IF query(users, body) = {}
    THEN {Answer(Unauthorized, "false", {})}
    ELSE {Answer(HttpOk, "true", {u}) : u \in query(users, body)}

\* the backend with its table, before any request; accepted: what the door
\* unit made of the answer to its own request ("none": not a request of the unit)
Backend(users) ==
    [users |-> users, answered |-> FALSE, request |-> NoBody,
     response |-> Answer(0, "missing", {}), accepted |-> "none"]

\* the body verify_user_for_unlock posts for the code, the matched fingerprint
\* id and the recognised name of the unlock screen
unlock_request(pin, fingerprint_id, face_name) ==
    [json |-> "object", pin_code |-> Value(pin), fingerprint_id |-> Value(fingerprint_id),
     face_match |-> Value(face_name)]

(* --------- Backend/server.py: the temp PINs for Telegram linking -------- *)

\* the four digits generate_telegram_pin can draw
TempPins == {"1234"}
\* Telegram chats that register with the bot
ChatIds == {"chatA", "chatB"}
\* rows of the users table
UserIds == {"u1"}
\* the link-telegram requests made in all
Requests == {1, 2}
\* verify-telegram-pin requests made in all
MaxVerifies == 2
\* PINs generated in all
MaxIssues == 2
\* the status of a rejected link request
BadRequest == 400

\* the row telegram_pin_<pin> of system_settings: absent, or its setting_value
\* with "used", "telegram_chat_id" and "expires_at" (issue: the generation
\* that wrote expires_at)
NoSetting == [present |-> FALSE, used |-> FALSE, chat |-> "none", issue |-> 0]

\* a link-telegram handler: not started
IdleRequest ==
    [pc |-> "idle", pin |-> "none", target |-> "none", chat |-> "none",
     value |-> NoSetting, status |-> 0, later |-> FALSE]

\* a verify-telegram-pin handler: not started
IdleVerify == [pc |-> "idle", pin |-> "none", chat |-> "none", value |-> NoSetting]

\* users: telegram_chat_id of each row; issues: the PINs generated so far with
\* the chat whose /register asked for each; expired: the generations whose
\* expires_at has passed; succeeded: those a link request answered 200 for
TelegramStart ==
    [settings |-> [p \in TempPins |-> NoSetting],
     users |-> [u \in UserIds |-> "none"],
     issues |-> <<>>, expired |-> {}, succeeded |-> {},
     link |-> [r \in Requests |-> IdleRequest],
     verify |-> IdleVerify, verifies |-> 0]

\* generate_telegram_pin, called by the bot's /register for chat: the upsert
\* writes a new setting_value under the key of the digits drawn
generate_telegram_pin(t, pin, chat) ==
    [t EXCEPT !.settings[pin] = [present |-> TRUE, used |-> FALSE, chat |-> "none",
                                 issue |-> Len(t.issues) + 1],
              !.issues = Append(@, [pin |-> pin, chat |-> chat])]

\* verify_telegram_pin up to its select: 400 if there is no row
verify_telegram_pin_select(t, pin, chat) ==
    IF ~t.settings[pin].present THEN t
    ELSE [t EXCEPT !.verify = [pc |-> "selected", pin |-> pin, chat |-> chat,
                               value |-> t.settings[pin]],
                   !.verifies = @ + 1]

\* verify_telegram_pin from its update on: the setting_value it read is
\* written back with telegram_chat_id set
verify_telegram_pin_update(t) ==
    [t EXCEPT !.settings[t.verify.pin] = [t.verify.value EXCEPT !.chat = t.verify.chat],
              !.verify = IdleVerify]

\* the bodies of a link-telegram request, as the door unit posts them:
\* temp_pin and user_id, no telegram_chat_id
LinkBodies ==
    {[temp_pin |-> p, user_id |-> u, telegram_chat_id |-> "none"] :
        p \in TempPins, u \in UserIds}

\* link_telegram up to the choice of target_user_id, for request r; first:
\* the row that the select of the users without telegram_chat_id gives first
api_link_telegram_select(t, r, body, first) ==
    LET v == t.settings[body.temp_pin]
        chat == IF body.telegram_chat_id # "none" THEN body.telegram_chat_id ELSE v.chat
        target == IF body.user_id # "none" THEN body.user_id ELSE first
        rejected == [IdleRequest EXCEPT !.pc = "answered", !.pin = body.temp_pin,
                                        !.status = BadRequest]
    IN IF \/ ~v.present \/ v.used \/ v.issue \in t.expired
          \/ chat = "none" \/ target = "none"
       THEN [t EXCEPT !.link[r] = rejected]
       ELSE [t EXCEPT !.link[r] =
                [pc |-> "selected", pin |-> body.temp_pin, target |-> target,
                 chat |-> chat, value |-> v, status |-> 0,
                 later |-> v.issue \in t.succeeded]]

\* link_telegram: the update of the users row
api_link_telegram_update_user(t, r) ==
    [t EXCEPT !.users[t.link[r].target] = t.link[r].chat,
              !.link[r].pc = "linked"]

\* link_telegram: setting_value['used'] = True, the update of the settings
\* row with the value read at the start, and the answer 200
api_link_telegram_mark_used(t, r) ==
    [t EXCEPT !.settings[t.link[r].pin] = [t.link[r].value EXCEPT !.used = TRUE],
              !.succeeded = @ \cup {t.link[r].value.issue},
              !.link[r] = [IdleRequest EXCEPT !.pc = "answered", !.status = HttpOk,
                                              !.pin = t.link[r].pin,
                                              !.chat = t.link[r].chat,
                                              !.value = t.link[r].value,
                                              !.later = t.link[r].later]]

(* ------------- fingerprint/main.py: FingerprintSensor ------------------ *)

\* the sensor's storage locations, range(1, 128) in the code
LastSlot == 4
Slots == 1..LastSlot
\* no location: _find_next_slot returned None, or nothing was stored
NoSlot == 0

\* templates: what each location holds ("none", a template enrolled earlier,
\* or one stored by enroll_fingerprint); result, location: what the last
\* enroll_fingerprint returned and where it stored; overwritten: it stored
\* into a location that held a template
FingerprintSensor(templates) ==
    [templates |-> templates, result |-> "none", location |-> NoSlot,
     overwritten |-> FALSE, full |-> FALSE]

SensorStart == FingerprintSensor([l \in Slots |-> "none"])

\* what load_model(location) can answer for each location: an empty location
\* gives an error, an occupied one OK or an error (a packet that fails)
LoadAnswers(templates) ==
    {f \in [Slots -> {"OK", "FAIL"}] : \A l \in Slots : templates[l] = "none" => f[l] = "FAIL"}

\* _find_next_slot; read_ok: read_templates() answered OK
find_next_slot(read_ok, load) ==
    IF ~read_ok THEN 1
    ELSE IF \E l \in Slots : load[l] # "OK"
    THEN CHOOSE l \in Slots : load[l] # "OK" /\ \A k \in 1..(l - 1) : load[k] = "OK"
    ELSE NoSlot

\* enroll_fingerprint(location=None); scans_ok: both images were converted
\* and create_model answered OK; store_ok: store_model answered OK
enroll_fingerprint(s, read_ok, load, scans_ok, store_ok) ==
    LET location == find_next_slot(read_ok, load)
        full == \A l \in Slots : s.templates[l] # "none"
        failed == [s EXCEPT !.result = "False", !.location = NoSlot,
                            !.overwritten = FALSE, !.full = full]
    IN IF location = NoSlot \/ ~scans_ok \/ ~store_ok THEN failed
       ELSE [s EXCEPT !.templates[location] = "new", !.result = "True",
                      !.location = location,
                      !.overwritten = (s.templates[location] # "none"),
                      !.full = full]

Init ==
    /\ keypad = HardwareKeypad
    /\ cli = CliStart
    /\ legacy = LegacyStart
    /\ server = Backend(NoUsers)
    /\ telegram = TelegramStart
    /\ sensor = SensorStart
    /\ hw \in BOOLEAN
    /\ running = TRUE
    /\ current_screen = "main_menu"
    /\ menu_buttons = <<>>
    /\ unlock = UnlockDoor
    /\ link = LinkTelegram
    /\ open_camera = 0
    /\ open_keypad = 0
    /\ open_fp = 0
    /\ garbage = NoGarbage
    /\ trace = NoTrace
    /\ events = {}
    /\ last_result = NoResult

\* the handles of a screen object that main() has just replaced: the object
\* stays referenced by screen_obj until the next event rebinds it
Discarded(o) == [keypad |-> o.hardware_keypad, fp |-> o.fp_sensor, camera |-> o.camera]

\* time.time() is dt later: the time since each stored start time grows.
\* face_start_time is read by process_face_step only, and verify_and_unlock
\* sets it anew before that step runs again: outside that step the time since
\* it is not followed (any amount may have passed: MaxElapsed).
Later(o, dt) ==
    [o EXCEPT !.face_elapsed =
                  IF @ = NoTime THEN @
                  ELSE IF o.unlock_state = "processing" /\ o.unlock_step = "face"
                  THEN Min(@ + dt, MaxElapsed) ELSE MaxElapsed,
              !.fingerprint_elapsed = IF @ = NoTime THEN @ ELSE Min(@ + dt, MaxElapsed)]

Store(scr, u, l, w, g, res, deltas) ==
    /\ current_screen' = scr
    /\ \E later \in {<<Later(u, dt), Later(l, dt)>> : dt \in deltas} :
          unlock' = later[1] /\ link' = later[2]
    /\ open_camera' = w.cam
    /\ open_keypad' = w.kp
    /\ open_fp' = w.fp
    /\ garbage' = g
    /\ trace' = w.trace
    /\ events' = w.events
    /\ last_result' = IF res.ret = "None" /\ w.trace.outcome = "failed" THEN last_result
                      ELSE res
    /\ UNCHANGED <<hw, menu_buttons>>

\* clock.tick(FPS) and the blocking calls of one loop iteration take 0 or
\* TimeStep seconds; an event handler takes none
Elapsed == Deltas
NoDelay == {0}

\* a loop iteration on the main menu: MainMenu.draw
MenuTick ==
    /\ running /\ current_screen = "main_menu"
    /\ UNCHANGED others
    /\ menu_buttons' = MainMenu_draw
    /\ events' = {}
    /\ UNCHANGED <<hw, running, current_screen, unlock, link, open_camera,
                   open_keypad, open_fp, garbage, trace, last_result>>

\* MOUSEBUTTONDOWN on the main menu
MenuClick ==
    /\ running /\ current_screen = "main_menu"
    /\ UNCHANGED others
    /\ \E point \in MenuPoints :
        LET b == FirstHit(menu_buttons, point)
            w == World(unlock)
        IN /\ b # "none"
           /\ Store(b, unlock, link, w, NoGarbage, NoResult, NoDelay)
           /\ UNCHANGED running

\* action == 'back': the cleanup main() does for the screen, then every
\* screen object is replaced by a new one
GoBack(w) ==
    /\ Store("main_menu", UnlockDoor, LinkTelegram,
             [w EXCEPT !.trace.outcome = "cancelled"], Discarded(w.o), NoResult, NoDelay)
    /\ UNCHANGED running

\* MOUSEBUTTONDOWN on the unlock screen
UnlockClick ==
    /\ running /\ current_screen = "unlock"
    /\ UNCHANGED others
    /\ \E point \in UnlockPoints :
       \E ok \in Outcome(UnlockDoor_handle_click(unlock, point) = "start_pin_input") :
        LET a == UnlockDoor_handle_click(unlock, point)
            w == World(unlock)
        IN /\ a # "None"
           /\ CASE a = "back" -> GoBack(cleanup_keypad(cleanup_keypad(w)))
                [] a = "start_pin_input" ->
                     /\ Store("unlock", start_pin_input(w, ok).o, link,
                              start_pin_input(w, ok), NoGarbage, NoResult, NoDelay)
                     /\ UNCHANGED running
                [] OTHER ->
                     /\ Store("unlock", cancel_pin_input(w).o, link,
                              cancel_pin_input(w), NoGarbage, NoResult, NoDelay)
                     /\ UNCHANGED running

\* a dispatch that runs the handler of unlock_step whatever unlock_state is
process_unlock_step_any_state(w, cam, face, close_ok, img, tz, search, v, lock) ==
    CASE w.o.unlock_step = "face" -> process_face_step(w, cam, face, close_ok)
      [] w.o.unlock_step = "fingerprint" ->
           process_fingerprint_step(w, close_ok, img, tz, search, "verify")
      [] w.o.unlock_step = "verify" -> process_verify_step(w, v)
      [] w.o.unlock_step = "unlock" -> process_unlock_step_final(w, lock)
      [] OTHER -> Ret(w, NoResult)

\* a dispatch that goes on with the handler of the next step in the same call
\* when the handler it ran moved the session on
process_unlock_step_chained(w, cam, face, close_ok, img, tz, search, v, lock) ==
    IF w.o.unlock_state # "processing" THEN Ret(w, NoResult)
    ELSE LET r == process_unlock_step_any_state(w, cam, face, close_ok, img, tz,
                                                search, v, lock)
         IN IF r.result = NoResult /\ r.w.o.unlock_step # w.o.unlock_step
            THEN process_unlock_step_any_state(r.w, cam, face, close_ok, img, tz,
                                               search, v, lock)
            ELSE r

\* process_unlock_step: the handler of the current unlock_step
process_unlock_step(w, cam, face, close_ok, img, tz, search, v, lock) ==
    CASE w.o.unlock_state # "processing" -> Ret(w, NoResult)
      [] w.o.unlock_step = "face" -> process_face_step(w, cam, face, close_ok)
      [] w.o.unlock_step = "fingerprint" ->
           process_fingerprint_step(w, close_ok, img, tz, search, "verify")
      [] w.o.unlock_step = "verify" -> process_verify_step(w, v)
      [] w.o.unlock_step = "unlock" -> process_unlock_step_final(w, lock)
      [] OTHER -> Ret(w, NoResult)

\* the adapter outcomes that the step about to run can meet (one value for
\* those it does not use)
CamChoices(o) ==
    IF o.unlock_state = "processing" /\ o.unlock_step = "face" /\ ~o.camera
    THEN CameraOutcomes ELSE {"ok"}
FaceChoices(o) ==
    IF o.unlock_state = "processing" /\ o.unlock_step = "face"
    THEN FaceOutcomes ELSE {"Unknown"}
CloseChoices(o, face) ==
    IF o.unlock_state = "processing"
       /\ \/ o.unlock_step = "face" /\ face \in Names
          \/ o.unlock_step = "fingerprint" /\ o.camera
    THEN BOOLEAN ELSE {TRUE}
ImageChoices(o) ==
    IF o.unlock_state = "processing" /\ o.unlock_step = "fingerprint"
    THEN ImageOutcomes ELSE {"NOFINGER"}
TemplateChoices(o, img) ==
    IF o.unlock_state = "processing" /\ o.unlock_step = "fingerprint" /\ img = "OK"
    THEN TemplateOutcomes ELSE {"OK"}
SearchChoices(o, img, tz) ==
    IF o.unlock_state = "processing" /\ o.unlock_step = "fingerprint"
       /\ img = "OK" /\ tz = "OK"
    THEN SearchOutcomes ELSE {NoId}
VerifyChoices(o) ==
    IF o.unlock_state = "processing" /\ o.unlock_step \in {"verify", "complete"}
    THEN VerifyOutcomes ELSE {NoResponse("Timeout")}
LockChoices(o) ==
    IF o.unlock_state = "processing" /\ o.unlock_step = "unlock"
    THEN LockOutcomes ELSE {LockOk}

\* main(): the screen object and the counts after it has dealt with the
\* result of process_unlock_step and drawn the screen
UnlockSettled(r) ==
    CASE r.result.ret = "None" -> UnlockDoor_draw(r.w)
      [] r.result.ret = "True" ->
           [r.w EXCEPT !.o = UnlockDoor, !.trace.outcome = "completed"]
      [] r.result.ret = "False" ->
           UnlockDoor_draw([r.w EXCEPT !.o.unlock_state = "idle",
                                       !.trace.outcome = "failed"])
      [] OTHER -> r.w

\* main(): what it does with the result of process_unlock_step, then the
\* draw; the loop iteration takes one of the times in deltas
UnlockResultAfter(r, deltas) ==
    LET w == UnlockSettled(r)
    IN CASE r.result.ret = "True" ->
              /\ Store("main_menu", w.o, link, w, Discarded(r.w.o), r.result, deltas)
              /\ UNCHANGED running
         [] r.result.ret \in {"None", "False"} ->
              /\ Store("unlock", w.o, link, w, NoGarbage, r.result, deltas)
              /\ UNCHANGED running
         [] OTHER ->
              /\ Store("unlock", w.o, link, w, NoGarbage, r.result, deltas)
              /\ running' = FALSE

UnlockResult(r) == UnlockResultAfter(r, Elapsed)

\* the results process_unlock_step can give in w, one per combination of
\* adapter outcomes
UnlockSteps(w) ==
    UNION {UNION {UNION {{process_unlock_step(w, cam, face, close_ok, img, tz,
                                              search, v, lock) :
                              cam \in CamChoices(w.o), v \in VerifyChoices(w.o),
                              lock \in LockChoices(w.o),
                              search \in SearchChoices(w.o, img, tz)} :
                         tz \in TemplateChoices(w.o, img),
                         close_ok \in CloseChoices(w.o, face)} :
                  face \in FaceChoices(w.o)} :
           img \in ImageChoices(w.o)}

\* the keypad check of main(): check_pin_input, then verify_and_unlock when it
\* returned "verify_pin"
UnlockKeypadCheck(key) ==
    LET k == check_pin_input(TickWorld(unlock), key)
    IN IF k.result = "verify_pin" THEN verify_and_unlock(k.w) ELSE k.w

\* a loop iteration on the unlock screen: the keypad check, the step, the draw
UnlockTick ==
    /\ running /\ current_screen = "unlock"
    /\ UNCHANGED others
    /\ \E w \in {UnlockKeypadCheck(key) : key \in KeyChoices(unlock)} :
         \E r \in UnlockSteps(w) : UnlockResult(r)

\* MOUSEBUTTONDOWN on the link screen, at one of points; fresh: events holds
\* the calls of this handler only
LinkClickAt(points, fresh) ==
    /\ running /\ current_screen = "link_telegram"
    /\ UNCHANGED others
    /\ \E point \in points :
       \E ok \in Outcome(LinkTelegram_handle_click(link, point)
                              \in {"start_pin_input", "verify_telegram_pin"}),
          close_ok \in Outcome(LinkTelegram_handle_click(link, point) = "back") :
        LET a == LinkTelegram_handle_click(link, point)
            o == [link EXCEPT !.telegram_pin = LinkTelegram_click_pin(link, point)]
            w == IF fresh THEN TickWorld(o) ELSE World(o)
        IN /\ a # "None" \/ w.o # link
           /\ CASE a = "back" -> GoBack(cleanup_camera(cleanup_keypad(w), close_ok))
                [] a = "None" ->
                     /\ Store("link_telegram", unlock, w.o, w, NoGarbage, NoResult, NoDelay)
                     /\ UNCHANGED running
                [] a = "verify_telegram_pin" ->
                     /\ Store("link_telegram", unlock, link_telegram(w, ok).w.o,
                              link_telegram(w, ok).w, NoGarbage, NoResult, NoDelay)
                     /\ running' = (link_telegram(w, ok).result # "raise")
                [] a = "start_auth" ->
                     /\ Store("link_telegram", unlock, [w.o EXCEPT !.step = "pin"],
                              w, NoGarbage, NoResult, NoDelay)
                     /\ UNCHANGED running
                [] a = "start_pin_input" ->
                     /\ Store("link_telegram", unlock, start_pin_input(w, ok).o,
                              start_pin_input(w, ok), NoGarbage, NoResult, NoDelay)
                     /\ UNCHANGED running
                [] OTHER ->
                     /\ Store("link_telegram", unlock, cancel_pin_input(w).o,
                              cancel_pin_input(w), NoGarbage, NoResult, NoDelay)
                     /\ UNCHANGED running

\* a click on the link screen outside the numpad
LinkClick == LinkClickAt(LinkPoints, FALSE)

\* a click on the link screen, the rectangles of the numpad of the
\* telegram-PIN entry included
LinkScreenClick == LinkClickAt(LinkScreenPoints, TRUE)

\* LinkTelegram.process_auth_step
process_auth_step(w, cam, face, close_ok, img, tz, search, v) ==
    CASE w.o.unlock_state # "processing" -> Ret(w, NoResult)
      [] w.o.unlock_step = "face" -> LinkTelegram_process_face_step(w, cam, face, close_ok)
      [] w.o.unlock_step = "fingerprint" ->
           process_fingerprint_step(w, close_ok, img, tz, search, "complete")
      [] w.o.unlock_step = "complete" -> LinkTelegram_process_complete(w, v)
      [] OTHER -> Ret(w, NoResult)

\* main(): the screen object and the counts after it has dealt with the
\* result of process_auth_step and drawn the screen
LinkSettled(r) ==
    LinkTelegram_draw(IF r.result.ret = "None" THEN r.w
                      ELSE [r.w EXCEPT !.o.unlock_state = "idle", !.o.step = "pin",
                                       !.o.pin = <<>>, !.o.fingerprint_attempts = 0,
                                       !.trace.outcome = "failed"])

\* main(): what it does with the result of process_auth_step, then the draw
LinkResultAfter(r, deltas) ==
    /\ Store("link_telegram", unlock, LinkSettled(r).o, LinkSettled(r),
             NoGarbage, r.result, deltas)
    /\ UNCHANGED running

LinkResult(r) == LinkResultAfter(r, Elapsed)

\* the results process_auth_step can give in w
LinkSteps(w) ==
    UNION {UNION {UNION {{process_auth_step(w, cam, face, close_ok, img, tz,
                                            search, v) :
                              cam \in CamChoices(w.o), v \in VerifyChoices(w.o),
                              search \in SearchChoices(w.o, img, tz)} :
                         tz \in TemplateChoices(w.o, img),
                         close_ok \in CloseChoices(w.o, face)} :
                  face \in FaceChoices(w.o)} :
           img \in ImageChoices(w.o)}

\* the keypad check of main(): check_pin_input, verify_pin, start_authentication
LinkKeypadCheck(key) ==
    LET k == check_pin_input(TickWorld(link), key)
        p == IF k.result = "verify_pin" THEN LinkTelegram_verify_pin(k.w)
             ELSE Ret(k.w, "False")
    IN IF p.result = "True" THEN start_authentication(p.w) ELSE p.w

\* a loop iteration on the link screen
LinkTick ==
    /\ running /\ current_screen = "link_telegram"
    /\ UNCHANGED others
    /\ \E w \in {LinkKeypadCheck(key) : key \in KeyChoices(link)} :
         \E r \in LinkSteps(w) : LinkResult(r)

Next == MenuTick \/ MenuClick \/ UnlockClick \/ UnlockTick \/ LinkClick \/ LinkTick

Spec == Init /\ [][Next]_vars

\* a loop iteration during which time passes
UnlockTickLater ==
    /\ running /\ current_screen = "unlock"
    /\ UNCHANGED others
    /\ \E w \in {UnlockKeypadCheck(key) : key \in KeyChoices(unlock)} :
         \E r \in UnlockSteps(w) : UnlockResultAfter(r, {TimeStep})
LinkTickLater ==
    /\ running /\ current_screen = "link_telegram"
    /\ UNCHANGED others
    /\ \E w \in {LinkKeypadCheck(key) : key \in KeyChoices(link)} :
         \E r \in LinkSteps(w) : LinkResultAfter(r, {TimeStep})

\* the loop keeps running while the program runs, and time.time() advances
FairSpec == Spec /\ WF_vars(UnlockTickLater) /\ WF_vars(LinkTickLater)

(* --------------------- the programs run on their own -------------------- *)

\* the GUI application is not running
MainOff ==
    /\ hw = FALSE /\ running = FALSE /\ current_screen = "main_menu"
    /\ menu_buttons = <<>> /\ unlock = UnlockDoor /\ link = LinkTelegram
    /\ open_camera = 0 /\ open_keypad = 0 /\ open_fp = 0
    /\ garbage = NoGarbage /\ trace = NoTrace /\ events = {}
    /\ last_result = NoResult
main_vars == <<hw, running, current_screen, menu_buttons, unlock, link,
               open_camera, open_keypad, open_fp, garbage, trace, events, last_result>>

\* every program before it has done anything
AllOff ==
    /\ MainOff
    /\ keypad = HardwareKeypad
    /\ cli = CliStart
    /\ legacy = LegacyStart
    /\ server = Backend(NoUsers)
    /\ telegram = TelegramStart
    /\ sensor = SensorStart

\* time passes between two polls
KeypadWait ==
    /\ keypad.since < MaxSinceMs
    /\ keypad' = [keypad EXCEPT !.since = Min(keypad.since + PollStepMs, MaxSinceMs)]
    /\ UNCHANGED <<main_vars, cli, legacy, server, telegram, sensor>>

\* a caller polls the keypad while the keys in down are held
KeypadPoll ==
    /\ \E down \in PressedSets :
         keypad' = check_pin_input_debounced(keypad, read_keypad(down))
    /\ UNCHANGED <<main_vars, cli, legacy, server, telegram, sensor>>

KeypadInit == AllOff
KeypadNext == KeypadWait \/ KeypadPoll
KeypadSpec == KeypadInit /\ [][KeypadNext]_vars

\* any client posts a body to /api/verify-user
BackendRequest ==
    /\ \E body \in RequestBodies, db \in {"ok", "raise"} :
         \E answer \in verify_user(server.users, body, db) :
            server' = [server EXCEPT !.answered = TRUE, !.request = body,
                                     !.response = answer, !.accepted = "none"]
    /\ UNCHANGED <<main_vars, keypad, cli, legacy, telegram, sensor>>

\* the door unit posts the code, fingerprint id and name of its unlock screen
\* (process_verify_step) and takes the answer as verify_user_for_unlock gives it
DeviceRequest ==
    /\ \E pin \in PinCodes, fid \in FingerprintIds, face \in UserNames,
          db \in {"ok", "raise"} :
         LET body == unlock_request(pin, fid, face)
         IN \E answer \in verify_user(server.users, body, db) :
              server' = [server EXCEPT
                            !.answered = TRUE, !.request = body,
                            !.response = answer, !.accepted =
                                IF Truthy(verify_user_for_unlock(answer).success)
                                THEN "True" ELSE "False"]
    /\ UNCHANGED <<main_vars, keypad, cli, legacy, telegram, sensor>>

BackendInit ==
    /\ MainOff /\ keypad = HardwareKeypad /\ cli = CliStart /\ legacy = LegacyStart
    /\ telegram = TelegramStart /\ sensor = SensorStart
    /\ \E users \in UserTables : server = Backend(users)
BackendNext == BackendRequest \/ DeviceRequest
BackendSpec == BackendInit /\ [][BackendNext]_vars

\* Rasberry pi/main.py, one action per part of the script
CliLoop ==
    /\ cli.pc = "loop"
    /\ cli' = cli_loop(cli)
    /\ UNCHANGED <<main_vars, keypad, legacy, server, telegram, sensor>>
CliPassword ==
    /\ cli.pc = "password"
    /\ \E out \in CheckOutcomes : cli' = cli_password(cli, out)
    /\ UNCHANGED <<main_vars, keypad, legacy, server, telegram, sensor>>
CliFace ==
    /\ cli.pc = "face"
    /\ \E face \in FaceOutcomes : cli' = cli_face(cli, face)
    /\ UNCHANGED <<main_vars, keypad, legacy, server, telegram, sensor>>
CliFingerprint ==
    /\ cli.pc = "fingerprint"
    /\ \E out \in CheckOutcomes : cli' = cli_fingerprint(cli, out)
    /\ UNCHANGED <<main_vars, keypad, legacy, server, telegram, sensor>>
CliFinal ==
    /\ cli.pc = "final"
    /\ \E lock \in LockOutcomes : cli' = cli_final(cli, lock)
    /\ UNCHANGED <<main_vars, keypad, legacy, server, telegram, sensor>>

CliInit == AllOff
CliNext == CliLoop \/ CliPassword \/ CliFace \/ CliFingerprint \/ CliFinal
CliSpec == CliInit /\ [][CliNext]_vars

\* src/main.py, one action per part of the script
LegacyLoop ==
    /\ legacy.pc = "loop"
    /\ legacy' = legacy_loop(legacy)
    /\ UNCHANGED <<main_vars, keypad, cli, server, telegram, sensor>>
LegacyFace ==
    /\ legacy.pc = "face"
    /\ \E face \in FaceOutcomes : legacy' = legacy_face(legacy, face)
    /\ UNCHANGED <<main_vars, keypad, cli, server, telegram, sensor>>
LegacyFingerprint ==
    /\ legacy.pc = "fingerprint"
    /\ \E out \in CheckOutcomes : legacy' = legacy_fingerprint(legacy, out)
    /\ UNCHANGED <<main_vars, keypad, cli, server, telegram, sensor>>
LegacyFinal ==
    /\ legacy.pc = "final"
    /\ legacy' = legacy_final(legacy)
    /\ UNCHANGED <<main_vars, keypad, cli, server, telegram, sensor>>

LegacyInit == AllOff
LegacyNext == LegacyLoop \/ LegacyFace \/ LegacyFingerprint \/ LegacyFinal
LegacySpec == LegacyInit /\ [][LegacyNext]_vars

(* ------------------------------ properties ----------------------------- *)

\* the calls of that name made by the last loop iteration
Called(name) == {c \in events : c.call = name}

\* exactly four decimal digits
FourDigits(pin) == Len(pin) = PinLength /\ \A i \in 1..Len(pin) : pin[i] \in Digits

\* the attempt that began with the last submitted code is still going on
InProgress == trace.submitted /\ trace.outcome = "none"

\* C1: operate_lock is invoked only in a session in which
\* verify_user_for_unlock returned success for the submitted code, and
\* verify_user_for_unlock is called only with a recorded face_name other than
\* "Unknown" and a recorded fingerprint_id.
C1_LockOnlyAfterVerify ==
    /\ trace.operate_lock_calls > 0 => trace.verify_ok
    /\ Called("operate_lock") # {} => trace.verify_ok
    /\ \A c \in Called("verify") :
         /\ c.args[2] # NoId
         /\ c.args[3] \notin {"None", "Unknown"}

C1_Witness ==
    /\ Called("operate_lock") # {}
    /\ trace.operate_lock_calls = 1
    /\ trace.verify_ok /\ trace.verify_calls = 1

\* the place of a step in the sequence face, fingerprint, verify, unlock
StepRank(step) ==
    CASE step = "face" -> 1
      [] step = "fingerprint" -> 2
      [] step = "verify" -> 3
      [] step = "unlock" -> 4
      [] OTHER -> 0

\* C2: within one UnlockDoor session, once the code has been submitted, every
\* tick, key press and click (Back apart) leaves the current step where it is
\* or moves it to the next one of face, fingerprint, verify, unlock.
C2_StepsOnlyAdvance ==
    [][(/\ current_screen = "unlock" /\ current_screen' = "unlock"
        /\ InProgress /\ InProgress'
        /\ unlock.unlock_state = "processing"
        /\ unlock'.unlock_state = "processing")
       => \/ StepRank(unlock'.unlock_step) = StepRank(unlock.unlock_step)
          \/ StepRank(unlock'.unlock_step) = StepRank(unlock.unlock_step) + 1]_vars

\* the session is past the face step
C2_Witness ==
    /\ current_screen = "unlock" /\ InProgress
    /\ unlock.unlock_state = "processing" /\ unlock.unlock_step = "verify"

\* C3 as stated: operate_lock is invoked at most once per unlock session, and
\* exactly once in a session that ends Completed.
C3_ExactlyOnceWhenCompleted ==
    /\ trace.operate_lock_calls <= 1
    /\ trace.outcome = "completed" => trace.operate_lock_calls = 1

\* C3, amended: operate_lock is invoked at most once per unlock session; in a
\* session that ends Completed it is invoked exactly once if the DoorLock class
\* was imported and DoorLock() returned, and not at all otherwise.
C3_AtMostOnce ==
    /\ trace.operate_lock_calls <= 1
    /\ trace.outcome = "completed" =>
         trace.operate_lock_calls = IF hw /\ ~trace.doorlock_raised THEN 1 ELSE 0

C3_Witness ==
    /\ trace.outcome = "completed" /\ trace.operate_lock_calls = 1
    /\ current_screen = "main_menu"

\* C4: after Back was clicked on the unlock or the link screen, no keypad,
\* camera or fingerprint-sensor handle of the discarded session is still open,
\* and the discarded session is not worked on any more.
C4_BackReleasesAll ==
    trace.outcome = "cancelled" =>
        /\ garbage = NoGarbage
        /\ current_screen = "main_menu"
        /\ unlock = UnlockDoor /\ link = LinkTelegram

\* Back was clicked while the session held a handle
C4_Witness == trace.outcome = "cancelled" /\ trace.submitted

\* the session failed by the face timeout
FaceTimeoutFailure ==
    trace.outcome = "failed" /\ last_result = Failure("Face recognition timeout")

\* the failed session's screen object
FailedObject == IF current_screen = "link_telegram" THEN link ELSE unlock

\* C5: a session that failed by the face timeout holds no camera, and did not
\* enter the fingerprint step; a face scan that has lasted more than 15 s
\* without a match fails at the next tick with that reason.
C5_FaceTimeoutReleasesCamera ==
    /\ FaceTimeoutFailure =>
         /\ ~FailedObject.camera
         /\ FailedObject.unlock_step = "face"
         /\ FailedObject.fingerprint_id = NoId
    /\ \A r \in UnlockSteps(TickWorld(unlock)) :
         (unlock.unlock_state = "processing" /\ unlock.unlock_step = "face"
          /\ FaceTimedOut(unlock))
         => r.result = Failure("Face recognition timeout")

C5_Witness == FaceTimeoutFailure

C7_CameraNotWithFingerprint == ~(open_camera > 0 /\ open_fp > 0)

\* the sensor is open after a face scan
C7_Witness == open_fp = 1 /\ unlock.fp_sensor /\ unlock.face_name \in Names

\* C8: a code is submitted (check_pin_input returns 'verify_pin' and the face
\* scan starts) only if it is exactly four decimal digits; the submit key
\* pressed with any other code changes nothing: the session stays where it is,
\* with the code it had.
C8_SubmitNeedsFourDigits ==
    /\ trace.submitted => FourDigits(trace.submitted_pin)
    /\ \A key \in KeyChoices(unlock) :
         check_pin_input(TickWorld(unlock), key).result = "verify_pin"
         => key = "#" /\ FourDigits(unlock.pin)
    /\ \A key \in KeyChoices(link) :
         (check_pin_input(TickWorld(link), key).result = "verify_pin"
          /\ LinkTelegram_verify_pin(TickWorld(link)).result = "True")
         => key = "#" /\ FourDigits(link.pin)
    /\ (unlock.pin_input_active /\ unlock.hardware_keypad /\ ~FourDigits(unlock.pin))
       => UnlockKeypadCheck("#") = TickWorld(unlock)
    /\ (link.pin_input_active /\ link.hardware_keypad /\ ~FourDigits(link.pin))
       => LinkKeypadCheck("#") = TickWorld(link)

\* a code was submitted and the face scan started
C8_Witness ==
    /\ current_screen = "unlock" /\ InProgress
    /\ unlock.unlock_step = "face" /\ FourDigits(unlock.pin)
    /\ unlock.pin = trace.submitted_pin

\* C9: from the submission of the code until the session ends, the session's
\* code is the submitted code, and verify_user_for_unlock is called with it.
C9_CodeImmutable ==
    /\ (InProgress /\ current_screen = "unlock") => unlock.pin = trace.submitted_pin
    /\ (InProgress /\ current_screen = "link_telegram") => link.pin = trace.submitted_pin
    /\ \A c \in Called("verify") : c.args[1] = trace.submitted_pin /\ FourDigits(c.args[1])

\* the verifier was called
C9_Witness == Called("verify") # {} /\ trace.submitted

\* the reasons of a failure by fingerprint exhaustion
FingerprintExhaustion ==
    {Failure("Fingerprint not detected after 3 attempts"),
     Failure("Fingerprint not recognized after 3 attempts"),
     Failure("Fingerprint error")}

\* C10, for one screen object and the results its next step can give
AttemptsBounded(o, steps) ==
    /\ o.fingerprint_attempts \in {NoAttr} \cup 0..MaxFingerprintAttempts
    /\ o.fingerprint_attempts = MaxFingerprintAttempts =>
         /\ trace.outcome = "failed" /\ last_result \in FingerprintExhaustion
         /\ o.unlock_state # "processing"
         /\ \A r \in steps : Call("fp_poll", <<>>) \notin r.w.events

\* C10: fingerprint_attempts is between 0 and 3 (once it is set), it is 3
\* only in a session that has failed by fingerprint exhaustion, and the step
\* of a session where it is 3 does not poll the sensor.
C10_AttemptsBounded ==
    /\ AttemptsBounded(unlock, UnlockSteps(TickWorld(unlock)))
    /\ AttemptsBounded(link, LinkSteps(TickWorld(link)))

C10_Witness ==
    /\ unlock.fingerprint_attempts = MaxFingerprintAttempts
    /\ Call("fp_poll", <<>>) \in events

\* the session failed because no finger was detected
NotDetectedFailure ==
    trace.outcome = "failed"
    /\ last_result = Failure("Fingerprint not detected after 3 attempts")

\* C11: a fingerprint attempt is counted as timed out only when more than 10 s
\* have passed since that attempt began, and the session fails with
\* "Fingerprint not detected after 3 attempts" exactly when the third attempt
\* times out.
C11_ThreeOwnWindows ==
    trace.outcome \in {"none", "failed"} =>
        \A c \in Called("fp_timeout") :
            /\ c.args[1]
            /\ NotDetectedFailure <=> c.args[2] = MaxFingerprintAttempts

\* the third window of a session expired
C11_Witness ==
    NotDetectedFailure /\ Call("fp_timeout", <<TRUE, MaxFingerprintAttempts>>) \in events

\* the fields of a session that C12 names
SessionFields(o) ==
    <<o.step, o.unlock_step, o.face_name, o.fingerprint_id, o.fingerprint_attempts,
      o.pin, o.unlock_state>>

\* the keypad outcomes of a loop iteration in which the user presses no key
NoKey(o) == KeyChoices(o) \cap {"none", "raise"}

\* C12: in a session that has failed, a loop iteration without a key press
\* returns no result and leaves step, face_name, fingerprint_id,
\* fingerprint_attempts, the code and the outcome as they are; a session that
\* has completed was replaced by a new screen object on the main menu, whose
\* loop iteration runs no step.
C12_NoOpAfterEnd ==
    /\ (trace.outcome = "failed" /\ current_screen = "unlock") =>
         \A key \in NoKey(unlock) : \A r \in UnlockSteps(UnlockKeypadCheck(key)) :
            /\ r.result = NoResult
            /\ SessionFields(UnlockSettled(r).o) = SessionFields(unlock)
            /\ UnlockSettled(r).trace.outcome = "failed"
    /\ (trace.outcome = "failed" /\ current_screen = "link_telegram") =>
         \A key \in NoKey(link) : \A r \in LinkSteps(LinkKeypadCheck(key)) :
            /\ r.result = NoResult
            /\ SessionFields(LinkSettled(r).o) = SessionFields(link)
            /\ LinkSettled(r).trace.outcome = "failed"
    /\ trace.outcome = "completed" =>
         current_screen = "main_menu" /\ unlock = UnlockDoor

\* a loop iteration has passed since the session failed
C12_Witness ==
    /\ trace.outcome = "failed" /\ current_screen = "unlock" /\ events = {}
    /\ last_result = Failure("Fingerprint not recognized after 3 attempts")

\* C13: in a session that has failed, a loop iteration without a key press
\* makes no adapter call: no camera frame is captured, the fingerprint sensor
\* is not polled, and neither verify_user_for_unlock nor operate_lock is
\* called.
C13_NoAdapterAfterEnd ==
    /\ (trace.outcome = "failed" /\ current_screen = "unlock") =>
         \A key \in NoKey(unlock) : \A r \in UnlockSteps(UnlockKeypadCheck(key)) :
            UnlockSettled(r).events = {}
    /\ (trace.outcome = "failed" /\ current_screen = "link_telegram") =>
         \A key \in NoKey(link) : \A r \in LinkSteps(LinkKeypadCheck(key)) :
            LinkSettled(r).events = {}

\* the screen object of the session going on
SessionObject == IF current_screen = "link_telegram" THEN link ELSE unlock

\* C14: verify_user_for_unlock is called at most once in a session, with the
\* code that was submitted, the fingerprint id that was matched and the face
\* name that was recognised in that session.
C14_VerifyOncePerSession ==
    /\ trace.verify_calls <= 1
    /\ trace.outcome \in {"none", "failed"} =>
         \A c \in Called("verify") :
            /\ c.args[1] = trace.submitted_pin
            /\ c.args[2] = SessionObject.fingerprint_id
            /\ c.args[2] \in FingerIds \cup {DemoFingerprintId}
            /\ c.args[3] = SessionObject.face_name
            /\ c.args[3] \in Names \cup {"test_user"}

\* the verifier was called a second time in one session
C14_Witness == trace.verify_calls = 2 /\ Called("verify") # {}

\* what requests.post did in a call recorded in events
Response(c) ==
    [kind |-> c.args[1], status |-> c.args[2], body |-> c.args[3],
     success |-> c.args[4], user |-> c.args[5]]

\* the verifier's answer in that call was taken as a rejection
Rejected(c) == ~Truthy(verify_user_for_unlock(Response(c)).success)

\* C15: when verify_user_for_unlock rejects in an unlock session, the session
\* fails with "Authentication failed", log_access is called with access_type
\* "failed_combined", and operate_lock is not called in that session.
C15_RejectFailsWithoutUnlock ==
    (current_screen = "unlock" /\ trace.outcome \in {"none", "failed"}) =>
        \A c \in Called("verify_response") :
            Rejected(c) =>
               /\ trace.outcome = "failed"
               /\ last_result = Failure("Authentication failed")
               /\ unlock.unlock_state # "processing"
               /\ unlock.unlock_step = "verify"
               /\ Call("log_access", <<"failed_combined">>) \in events
               /\ Called("operate_lock") = {}
               /\ trace.operate_lock_calls = 0

\* the verifier rejected a session that had passed the face and the
\* fingerprint step
C15_Witness ==
    /\ current_screen = "unlock" /\ trace.outcome = "failed"
    /\ \E c \in Called("verify_response") : Rejected(c)
    /\ unlock.face_name \in Names /\ unlock.fingerprint_id \in FingerIds

\* C16: verify_user_for_unlock gives an answer that the caller takes as an
\* acceptance only for a response with status 200 whose body is an object
\* with success true; for every other status, body and exception its answer
\* is a rejection.
C16_AcceptOnlySuccessTrue ==
    \A c \in Called("verify_response") :
        ~Rejected(c) <=>
            /\ Response(c).kind = "response"
            /\ Response(c).status = HttpOk
            /\ Response(c).body = "object"
            /\ Response(c).success = "true"

\* the answer to a response with status 200 was taken as an acceptance
C16_Witness ==
    \E c \in Called("verify_response") : ~Rejected(c) /\ Response(c).status = HttpOk

\* the session on the unlock screen is in the unlock step
InUnlockStep ==
    /\ current_screen = "unlock" /\ running
    /\ unlock.unlock_state = "processing" /\ unlock.unlock_step = "unlock"

\* C17: the loop iteration that follows the entry into the unlock step ends
\* the session Completed with a success result, whatever DoorLock() and
\* operate_lock do.
C17_UnlockStepCompletes ==
    InUnlockStep =>
        \A key \in KeyChoices(unlock) : \A r \in UnlockSteps(UnlockKeypadCheck(key)) :
            /\ r.result.ret = "True"
            /\ UnlockSettled(r).trace.outcome = "completed"

\* a session completed although DoorLock() raised
C17_Witness == trace.outcome = "completed" /\ trace.doorlock_raised

\* C18: no call of process_unlock_step or process_auth_step raises: the main
\* loop is never left by an exception of a step handler.
C18_NoExceptionEscapes ==
    /\ running
    /\ last_result.ret \in {"None", "True", "False"}
    /\ \A r \in UnlockSteps(TickWorld(unlock)) \cup LinkSteps(TickWorld(link)) :
          r.result.ret \in {"None", "True", "False"}

\* a step handler returned a failure for an adapter error
C18_Witness == running /\ last_result = Failure("Fingerprint error")

\* C19, for one screen object: it records neither the demo identity nor a
\* demo fingerprint id, it runs no session if the hardware classes were not
\* imported, and a camera, recogniser or sensor that fails while a step runs
\* gives a failure or leaves the step where it is.
NoBypass(o, w) ==
    /\ o.face_name # "test_user" /\ o.fingerprint_id # DemoFingerprintId
    /\ ~hw => o.unlock_state \notin {"processing", "idle", "failed", "completed"}
    /\ (o.unlock_state = "processing" /\ o.unlock_step = "face" /\ ~FaceTimedOut(o)) =>
         /\ ~o.camera =>
               process_face_step(w, "raise", "Unknown", TRUE).result = Failure("Camera error")
         /\ o.camera =>
               process_face_step(w, "ok", "raise", TRUE).result = Failure("Face error")
    /\ (o.unlock_state = "processing" /\ o.unlock_step = "fingerprint") =>
         LET r == process_fingerprint_step(w, TRUE, "raise", "OK", NoId, "verify")
         IN /\ r.w.o.unlock_step = "fingerprint" /\ r.w.o.fingerprint_id = NoId
            /\ r.result \in {NoResult} \cup FingerprintExhaustion

HoldsNothing(o) == ~o.camera /\ ~o.hardware_keypad /\ ~o.fp_sensor

\* C20: when a step handler returns the result that ends the session, success
\* or failure, the session's screen object holds no camera, keypad or
\* fingerprint-sensor handle.
C20_EndReleasesHandles ==
    /\ current_screen = "unlock" =>
         \A key \in KeyChoices(unlock) : \A r \in UnlockSteps(UnlockKeypadCheck(key)) :
            r.result.ret \in {"True", "False"} => HoldsNothing(r.w.o)
    /\ current_screen = "link_telegram" =>
         \A key \in KeyChoices(link) : \A r \in LinkSteps(LinkKeypadCheck(key)) :
            r.result.ret \in {"True", "False"} => HoldsNothing(r.w.o)

\* a session failed by a fingerprint mismatch and holds no handle
C20_Witness ==
    /\ trace.outcome = "failed"
    /\ last_result = Failure("Fingerprint not recognized after 3 attempts")
    /\ HoldsNothing(FailedObject)

\* C23: a camera that cannot be acquired when the face scan starts does not
\* fail the session: no step returns the failure "Camera error", and the
\* session stays in progress.
C23_CameraErrorIsTransient ==
    /\ last_result # Failure("Camera error")
    /\ \A r \in UnlockSteps(TickWorld(unlock)) \cup LinkSteps(TickWorld(link)) :
          r.result # Failure("Camera error")

\* the state of a session that C22 names: the code, the step (unlock_step
\* and unlock_state; self.step only selects what is drawn), the recorded
\* identity, the attempts, the start times both deadlines are counted from,
\* and the handles held
PendingFields(o) ==
    <<o.pin, o.unlock_step, o.unlock_state, o.face_name, o.fingerprint_id,
      o.fingerprint_attempts, o.face_elapsed, o.fingerprint_elapsed,
      o.camera, o.hardware_keypad, o.fp_sensor>>

\* the face scan or the fingerprint scan of o is going on and its deadline
\* has not passed
FacePending(o) ==
    /\ o.unlock_state = "processing" /\ o.unlock_step = "face"
    /\ o.face_elapsed <= FaceTimeout
FingerprintPending(o) ==
    /\ o.unlock_state = "processing" /\ o.unlock_step = "fingerprint"
    /\ o.fingerprint_elapsed <= FingerprintTimeout

\* the step of a loop iteration in which no key is pressed, every frame is
\* classified Unknown and no finger is on the sensor
UnlockPendingStep ==
    process_unlock_step(UnlockKeypadCheck("none"), "ok", "Unknown", TRUE,
                        "NOFINGER", "OK", NoId, NoResponse("Timeout"), "ok")
LinkPendingStep ==
    process_auth_step(LinkKeypadCheck("none"), "ok", "Unknown", TRUE,
                      "NOFINGER", "OK", NoId, NoResponse("Timeout"))

FingerprintStarted(o) ==
    ~o.camera /\ o.fp_sensor /\ o.fingerprint_elapsed # NoTime

CallsOf(step) ==
    CASE step = "face" -> {"camera_frame"}
      [] step = "fingerprint" -> {"fp_poll", "fp_timeout"}
      [] step \in {"verify", "complete"} -> {"verify", "verify_response", "log_access"}
      [] step = "unlock" -> {"operate_lock", "log_access"}
      [] OTHER -> {}

\* one call of the step dispatch on w with result r made only the calls of
\* the step w was in, and moved the session on by one step at most
OneHandler(w, r) ==
    /\ {c.call : c \in r.w.events} \subseteq
          (IF w.o.unlock_state = "processing" THEN CallsOf(w.o.unlock_step) ELSE {})
    /\ r.w.o.unlock_step # w.o.unlock_step =>
          /\ w.o.unlock_state = "processing"
          /\ StepRank(r.w.o.unlock_step) = StepRank(w.o.unlock_step) + 1
             \/ r.w.o.unlock_step = "complete"

\* C26: a call of process_unlock_step or process_auth_step runs the handler
\* of the step the session is in and no other: it uses only that step's
\* adapter, and when it moves the session to the next step, that step's
\* adapter is not used in the same call.
C26_OneHandlerPerCall ==
    /\ current_screen = "unlock" =>
          \A w \in {UnlockKeypadCheck(key) : key \in KeyChoices(unlock)} :
              \A r \in UnlockSteps(w) : OneHandler(w, r)
    /\ current_screen = "link_telegram" =>
          \A w \in {LinkKeypadCheck(key) : key \in KeyChoices(link)} :
              \A r \in LinkSteps(w) : OneHandler(w, r)

\* the fingerprint step matched a finger and moved the session to the verify
\* step; only the sensor was used in that call
C26_Witness ==
    /\ current_screen = "unlock" /\ unlock.unlock_state = "processing"
    /\ unlock.unlock_step = "verify"
    /\ events = {Call("fp_poll", <<>>)}

\* the session on the unlock screen has ended, or Back was clicked
Ended == trace.outcome \in {"completed", "failed", "cancelled"}

\* C21: once the code has been submitted on the unlock screen, and as long as
\* loop iterations go on and time passes, the session ends Completed or Failed
\* unless Back is clicked.
C21_SessionTerminates ==
    (current_screen = "unlock" /\ InProgress) ~> Ended


\* C24: when DoorLock.operate_lock has run, the servo was commanded to the
\* unlocked angle and then to the locked angle, in that order, and the position
\* the servo was last commanded to is the locked angle (90), whether the unlock
\* and the lock command succeeded or raised.
C24_LockEndsLocked ==
    \A c \in Called("operate_lock") :
        /\ c.args[2] = LockedAngle
        /\ \A i, j \in DOMAIN c.args[1] :
              (c.args[1][i] = UnlockedAngle /\ c.args[1][j] = LockedAngle) => i < j


\* the first key of a list of pressed keys, "None" for the empty list
FirstKey(pressed) == IF pressed = <<>> THEN "None" ELSE pressed[1]

\* C25: a poll of check_pin_input returns the pressed key exactly when a key is
\* pressed and that key differs from the key observed at the poll before, or at
\* least 300 ms (300 ms included) have passed since the last accepted key; every
\* other poll returns no key.
C25_DebounceAsStated ==
    keypad.polled =>
        LET accept == /\ keypad.pressed_keys # <<>>
                      /\ \/ FirstKey(keypad.pressed_keys) # FirstKey(keypad.observed)
                         \/ keypad.observed_since >= DebounceMs
        IN keypad.key = IF accept THEN FirstKey(keypad.pressed_keys) ELSE "None"


\* the three factors of the current attempt of the command-line flow succeeded
CliAllFactors ==
    /\ cli.password_check = "True"
    /\ cli.name \in Names
    /\ cli.fingerprint_check = "True"

C30_GrantNeedsBothFactors ==
    legacy.exit_code = 0 =>
        (legacy.name \in Names /\ legacy.fingerprint_check = "True")


\* an active user whose stored code and fingerprint id are those of the request
MatchingUsers(body) ==
    {u \in server.users :
        /\ u.is_active
        /\ ~IsNone(body.pin_code) /\ u.pin_code = body.pin_code.value
        /\ ~IsNone(body.fingerprint_id) /\ u.fingerprint_id = body.fingerprint_id.value}

\* C27: the door unit accepts an unlock only if the submitted code, the matched
\* fingerprint id and the recognised face belong to one active user record.
C27_SameUserAllFactors ==
    server.accepted = "True" =>
        \E u \in MatchingUsers(server.request) :
            u.name = server.request.face_match.value

\* C28: verify-user answers success only if an active user exists whose stored
\* pin_code and fingerprint_id equal those of the request, for every request
\* body, also one in which a field is missing, empty or null.
C28_SuccessNeedsBothFields ==
    (server.answered /\ server.response.success = "true") =>
        MatchingUsers(server.request) # {}


\* C35: while an unlock session is in the face, fingerprint, verify or unlock
\* step, the screen holds no keypad handle and keypad input is not active (no
\* key press is read): no click re-acquires the keypad before a new session.
C35_NoKeypadWhileScanning ==
    (current_screen = "unlock" /\ InProgress /\ unlock.unlock_state = "processing") =>
        (~unlock.hardware_keypad /\ ~unlock.pin_input_active)

\* the screen object is where construction left it, or in PIN entry: no code
\* was accepted, no step of the authentication ran and no handle is held
InPinEntry(o) ==
    /\ o.unlock_state \notin {"processing", "idle", "failed", "completed"}
    /\ o.step \in {"instructions", "pin"}
    /\ o.face_name = "None" /\ o.fingerprint_id = NoId
    /\ HoldsNothing(o) /\ ~o.pin_input_active

FaceTickAsStated(w, face, r) ==
    /\ r.result = NoResult
    /\ face \in Names =>
          /\ r.w.o.face_name = face /\ ~r.w.o.camera
          /\ r.w.o.fingerprint_attempts = 0
          /\ r.w.o.unlock_step = "fingerprint" /\ r.w.o.step = "fingerprint"
    /\ face = "Unknown" =>
          /\ r.w.o.face_name = w.o.face_name /\ r.w.o.camera
          /\ r.w.o.fingerprint_attempts = w.o.fingerprint_attempts
          /\ r.w.o.unlock_step = "face"

\* the frame that process_face_step classified
Classified == Names \cup {"Unknown"}

\* C33: when a frame is classified as a known identity, the same call of
\* process_face_step records face_name, releases the camera, sets
\* fingerprint_attempts to 0 and puts the session in the fingerprint step; a
\* frame classified "Unknown" changes none of these.
C33_KnownFaceSameTick ==
    /\ (current_screen = "unlock" /\ unlock.unlock_state = "processing"
        /\ unlock.unlock_step = "face") =>
          \A cam \in CamChoices(unlock), face \in Classified, close_ok \in BOOLEAN :
              LET r == process_face_step(TickWorld(unlock), cam, face, close_ok)
              IN Call("camera_frame", <<>>) \in r.w.events =>
                     FaceTickAsStated(TickWorld(unlock), face, r)
    /\ (current_screen = "link_telegram" /\ link.unlock_state = "processing"
        /\ link.unlock_step = "face") =>
          \A cam \in CamChoices(link), face \in Classified, close_ok \in BOOLEAN :
              LET r == LinkTelegram_process_face_step(TickWorld(link), cam, face, close_ok)
              IN Call("camera_frame", <<>>) \in r.w.events =>
                     FaceTickAsStated(TickWorld(link), face, r)

\* the time since fingerprint_start_time that process_fingerprint_step tests
\* in o: the window begins with the call if none is running
WindowElapsed(o) == IF o.fingerprint_elapsed = NoTime THEN 0 ELSE o.fingerprint_elapsed

\* process_fingerprint_step ran in w with the sensor answering img, tz and
\* search, and returned r.  A timeout, a mismatch and an exception count one
\* attempt and, below 3, begin a new window; no finger and a failed conversion
\* change neither; a match records the id and moves on to next_step.
FingerprintTickAsStated(w, img, tz, search, next_step, r) ==
    LET n == w.o.fingerprint_attempts
        timeout == FingerprintTimedOut(WindowElapsed(w.o))
        mismatch == img = "OK" /\ tz = "OK" /\ search = NoId
        match == img = "OK" /\ tz = "OK" /\ search # NoId
    IN /\ (timeout \/ img = "raise" \/ mismatch) =>
             /\ r.w.o.fingerprint_attempts = n + 1
             /\ r.w.o.fingerprint_id = w.o.fingerprint_id
             /\ n + 1 < MaxFingerprintAttempts =>
                   /\ r.w.o.fingerprint_elapsed = 0 /\ r.result = NoResult
                   /\ r.w.o.unlock_step = "fingerprint"
                   /\ r.w.o.unlock_state = "processing"
       /\ (~timeout /\ (img = "NOFINGER" \/ (img = "OK" /\ tz # "OK"))) =>
             /\ r.w.o.fingerprint_attempts = n
             /\ r.w.o.fingerprint_elapsed = WindowElapsed(w.o)
             /\ r.w.o.unlock_step = "fingerprint" /\ r.result = NoResult
       /\ (~timeout /\ match) =>
             /\ r.w.o.fingerprint_id = search /\ r.w.o.unlock_step = next_step
             /\ r.w.o.fingerprint_attempts = n /\ r.result = NoResult

\* the fingerprint step of the session on the screen is about to run
InFingerprintStep(scr, o) ==
    current_screen = scr /\ o.unlock_state = "processing" /\ o.unlock_step = "fingerprint"

\* C32: in the fingerprint step an attempt timeout (more than 10 s), a search
\* mismatch and a sensor exception each add exactly one to
\* fingerprint_attempts and, while the count is below 3, restart the 10 s
\* window; a tick with no finger present or with a failed image-to-template
\* conversion changes neither the counter nor the window; a search match
\* records fingerprint_id and moves to the remote verification without
\* changing the counter.
C32_FingerprintCounting ==
    /\ InFingerprintStep("unlock", unlock) =>
          \A close_ok \in BOOLEAN, img \in ImageOutcomes, tz \in TemplateOutcomes,
             search \in SearchOutcomes :
              FingerprintTickAsStated(TickWorld(unlock), img, tz, search, "verify",
                  process_unlock_step(TickWorld(unlock), "ok", "Unknown", close_ok,
                                      img, tz, search, NoResponse("Timeout"), LockOk))
    /\ InFingerprintStep("link_telegram", link) =>
          \A close_ok \in BOOLEAN, img \in ImageOutcomes, tz \in TemplateOutcomes,
             search \in SearchOutcomes :
              FingerprintTickAsStated(TickWorld(link), img, tz, search, "complete",
                  process_auth_step(TickWorld(link), "ok", "Unknown", close_ok,
                                    img, tz, search, NoResponse("Timeout")))

\* the second attempt of a session is going on after the first was counted
C32_Witness ==
    /\ InFingerprintStep("unlock", unlock) /\ unlock.fingerprint_attempts = 2
    /\ unlock.fingerprint_elapsed = 0

\* C34: every time the fingerprint step is entered, also in a second
\* authentication run on the same LinkTelegram screen after an earlier run
\* failed, the 10 s window of the first attempt is measured from that entry:
\* a window that is running in the fingerprint step was begun by the
\* fingerprint step of the run going on.
C34_WindowFromEntry ==
    /\ (InFingerprintStep("link_telegram", link) /\ link.fingerprint_elapsed # NoTime) =>
           trace.own_window
    /\ (InFingerprintStep("unlock", unlock) /\ unlock.fingerprint_elapsed # NoTime) =>
           trace.own_window

(* ---------------- the link screen with its numpad -------------------- *)
\* Spec follows the sessions of both screens up to the telegram-PIN entry;
\* LinkSpec adds the clicks on the numpad of that entry and link_telegram().
\* In LinkSpec the devices work and no time step passes within a loop
\* iteration: the camera opens and closes, the recogniser and the sensor
\* answer, and the verifier answers 200 with a rejection, with an acceptance
\* and a user object, or with an acceptance and no user.
PlainVerifyOutcomes ==
    {[kind |-> "response", status |-> HttpOk, body |-> "object",
      success |-> "false", user |-> "object"],
     [kind |-> "response", status |-> HttpOk, body |-> "object",
      success |-> "true", user |-> "object"],
     [kind |-> "response", status |-> HttpOk, body |-> "object",
      success |-> "true", user |-> "null"]}

\* the results process_auth_step can give in w with devices that work
PlainLinkSteps(w) ==
    {process_auth_step(w, "ok", face, TRUE, img, "OK", search, v) :
        face \in FaceChoices(w.o) \ {"raise"},
        img \in ImageChoices(w.o) \ {"raise"},
        search \in IF w.o.unlock_step = "fingerprint" THEN SearchOutcomes ELSE {NoId},
        v \in IF w.o.unlock_step = "complete" THEN PlainVerifyOutcomes
              ELSE {NoResponse("Timeout")}}

\* a loop iteration on the link screen with devices that work
LinkTickPlain ==
    /\ running /\ current_screen = "link_telegram"
    /\ UNCHANGED others
    /\ \E w \in {LinkKeypadCheck(key) : key \in KeyChoices(link)} :
         \E r \in PlainLinkSteps(w) : LinkResultAfter(r, NoDelay)

LinkNext == MenuTick \/ MenuClick \/ LinkScreenClick \/ LinkTickPlain

LinkSpec == Init /\ [][LinkNext]_vars

\* the session going on has passed every factor: a four-digit code was
\* submitted, a face and a fingerprint were matched, and
\* verify_user_for_unlock accepted them
SessionVerified ==
    /\ trace.submitted /\ FourDigits(trace.submitted_pin) /\ trace.verify_ok
    /\ link.face_name \in Names /\ link.fingerprint_id # NoId

\* the telegram-PIN entry is shown only in a session that has passed every factor
EntryNeedsVerification == link.step = "enter_telegram_pin" => SessionVerified

\* a link request carries the user object of a verification, and is made in
\* the session that verification accepted
RequestNeedsVerification ==
    \A c \in Called("link_telegram") : c.args[2] = "user" /\ c.args[3] /\ c.args[4]

\* C31: the link-telegram request is sent only with a user id returned by a
\* successful remote verification in the same LinkTelegram session, which
\* requires a submitted four-digit code, a face match and a fingerprint match;
\* otherwise the telegram-PIN entry is not reached and no link request is sent.
C31_LinkNeedsVerifiedSession ==
    current_screen = "link_telegram" =>
        EntryNeedsVerification /\ RequestNeedsVerification

(* ------------- the temp PINs of the backend, as a program -------------- *)

\* /register of the bot for chat: the backend draws pin and stores it
GeneratePin ==
    /\ Len(telegram.issues) < MaxIssues
    /\ \E pin \in TempPins, chat \in ChatIds :
         telegram' = generate_telegram_pin(telegram, pin, chat)
    /\ UNCHANGED <<main_vars, keypad, cli, legacy, server, sensor>>

\* the expires_at of a stored PIN passes
ExpirePin ==
    /\ \E g \in {telegram.settings[p].issue : p \in TempPins} \ ({0} \cup telegram.expired) :
         telegram' = [telegram EXCEPT !.expired = @ \cup {g}]
    /\ UNCHANGED <<main_vars, keypad, cli, legacy, server, sensor>>

\* a verify-telegram-pin request (the bot's, after its generate request, or
\* any other client's) reads the row
VerifySelect ==
    /\ telegram.verify.pc = "idle" /\ telegram.verifies < MaxVerifies
    /\ \E pin \in TempPins, chat \in ChatIds :
         /\ telegram.settings[pin].present
         /\ telegram' = verify_telegram_pin_select(telegram, pin, chat)
    /\ UNCHANGED <<main_vars, keypad, cli, legacy, server, sensor>>

\* the verify-telegram-pin request writes the row back
VerifyUpdate ==
    /\ telegram.verify.pc = "selected"
    /\ telegram' = verify_telegram_pin_update(telegram)
    /\ UNCHANGED <<main_vars, keypad, cli, legacy, server, sensor>>

\* a link-telegram request arrives and the handler reads the row
LinkSelect ==
    /\ \E r \in Requests, body \in LinkBodies :
         /\ telegram.link[r].pc = "idle"
         /\ \E first \in IF \E u \in UserIds : telegram.users[u] = "none"
                         THEN {u \in UserIds : telegram.users[u] = "none"}
                         ELSE {"none"} :
               telegram' = api_link_telegram_select(telegram, r, body, first)
    /\ UNCHANGED <<main_vars, keypad, cli, legacy, server, sensor>>

\* the handler of a link-telegram request updates the users row
LinkUpdateUser ==
    /\ \E r \in Requests :
         /\ telegram.link[r].pc = "selected"
         /\ telegram' = api_link_telegram_update_user(telegram, r)
    /\ UNCHANGED <<main_vars, keypad, cli, legacy, server, sensor>>

\* the handler of a link-telegram request marks the PIN used and answers
LinkMarkUsed ==
    /\ \E r \in Requests :
         /\ telegram.link[r].pc = "linked"
         /\ telegram' = api_link_telegram_mark_used(telegram, r)
    /\ UNCHANGED <<main_vars, keypad, cli, legacy, server, sensor>>

TelegramInit == AllOff
TelegramNext ==
    GeneratePin \/ ExpirePin \/ VerifySelect \/ VerifyUpdate
    \/ LinkSelect \/ LinkUpdateUser \/ LinkMarkUsed
TelegramSpec == TelegramInit /\ [][TelegramNext]_vars

(* ------------------ the fingerprint sensor, as a program --------------- *)

\* enroll_fingerprint() is called without a location
Enroll ==
    /\ \E read_ok \in BOOLEAN, load \in LoadAnswers(sensor.templates),
          scans_ok \in BOOLEAN, store_ok \in BOOLEAN :
         sensor' = enroll_fingerprint(sensor, read_ok, load, scans_ok, store_ok)
    /\ UNCHANGED <<main_vars, keypad, cli, legacy, server, telegram>>

\* the sensor holds the templates enrolled earlier
SensorInit ==
    /\ MainOff /\ keypad = HardwareKeypad /\ cli = CliStart /\ legacy = LegacyStart
    /\ server = Backend(NoUsers) /\ telegram = TelegramStart
    /\ \E templates \in [Slots -> {"none", "old"}] : sensor = FingerprintSensor(templates)
SensorNext == Enroll
SensorSpec == SensorInit /\ [][SensorNext]_vars

\* the link-telegram requests that were answered 200
Linked == {r \in Requests : telegram.link[r].status = HttpOk}

\* the handler of request r goes on after its checks only if the row of the
\* PIN exists, is not marked used and its expires_at has not passed
ChecksLivePin(r) ==
    (telegram.link[r].pc = "idle" /\ telegram'.link[r].pc = "selected") =>
        LET v == telegram.settings[telegram'.link[r].pin]
        IN v.present /\ ~v.used /\ v.issue \notin telegram.expired

\* C37: a link-telegram request succeeds only if the row of the temp PIN
\* exists, is not marked used and has not passed its expires_at; once a link
\* with the PIN has succeeded, every link request that arrives later with that
\* PIN, without a new generation of it, is rejected.
C37_PinLinksOnce ==
    /\ [][\A r \in Requests : ChecksLivePin(r)]_vars
    /\ [](\A r \in Linked : ~telegram.link[r].later)

\* C38: of two concurrent link-telegram requests that carry the same unused,
\* unexpired temp PIN (neither arrived after the other had succeeded), at most
\* one is answered with success.
C38_OneConcurrentLink ==
    \A r1 \in Linked, r2 \in Linked :
        (/\ telegram.link[r1].value.issue = telegram.link[r2].value.issue
         /\ ~telegram.link[r1].later /\ ~telegram.link[r2].later) => r1 = r2

\* the generations of a PIN that are neither used nor expired
Pending == (1..Len(telegram.issues)) \ (telegram.expired \cup telegram.succeeded)

\* C39: from the generation of a temp PIN until it is used or expires, the
\* chat id stored with the PIN is that of the chat that asked for it, whatever
\* other registrations and verify-telegram-pin requests are made, and a link
\* made with the PIN attaches that chat.
C39_PinKeepsItsChat ==
    /\ \A g \in Pending :
          LET v == telegram.settings[telegram.issues[g].pin]
          IN (v.present /\ v.chat # "none") => v.chat = telegram.issues[g].chat
    /\ \A r \in Linked :
          telegram.link[r].chat = telegram.issues[telegram.link[r].value.issue].chat


\* the last enroll_fingerprint() stored a template
Stored == sensor.result = "True" /\ sensor.location \in Slots

\* C40: enroll_fingerprint called without a location stores the new template
\* only in a location that held no template, and returns False without
\* storing when every location is occupied: whatever the sensor answers to
\* read_templates and load_model, it never overwrites an enrolled template.
C40_EnrollNeverOverwrites ==
    /\ Stored => ~sensor.overwritten
    /\ sensor.full => sensor.result = "False"

==============================================================================
